---- MODULE Spec2Model ----
(***************************************************************************)
(* A model of the fastcall benchmark evaluation scripts:                   *)
(*   - cycle_stats.py       the statistics pipeline (results/ -> CSV)      *)
(*   - plotting/utils.py    the array assembly of the plotting pipeline    *)
(*   - plotting/fork.py     the array assembly of the fork plots           *)
(*                                                                         *)
(* Numbers.  numpy computes in float64; the model computes the same        *)
(* formulas over exact rationals <<num, den>> (den > 0, lowest terms), so  *)
(* rounding is not modelled.  An array of measurements is kept as integer  *)
(* numerators over one common denominator.  The standard deviation is kept *)
(* as the symbolic square root of the (rational) population variance.      *)
(* TLC's integers are 32 bit wide, so OVERFLOW_THRESHOLD, 10**10 in the    *)
(* source, is scaled to 10; the code only ever compares samples with it.   *)
(***************************************************************************)
EXTENDS Integers, Sequences, FiniteSets, TLC

(***************************************************************************)
(* Bounds of the model.                                                    *)
(***************************************************************************)
\* data rows of the CSV file handed to read_csv in SpecCsv
MaxRows == 3

\* files and directories put into the results/ tree of Spec
MaxFiles == 2

\* data rows of the leaf file handed to read_method in SpecMethod
MaxMethodRows == 2

\* pieces a label of SpecMethod is put together from
MaxPieces == 3

\* entries of the results/ directory the plotting pipelines scan
MaxEntries == 2

(***************************************************************************)
(* Exact rational arithmetic.                                              *)
(***************************************************************************)
Abs(x) == IF x < 0 THEN -x ELSE x

RECURSIVE Gcd(_, _)
Gcd(a, b) == IF b = 0 THEN a ELSE Gcd(b, a % b)

\* the rational n/d (d # 0) in lowest terms with a positive denominator
Rat(n, d) ==
    LET g == Gcd(Abs(n), Abs(d))
        s == IF d < 0 THEN -1 ELSE 1
    IN  <<(s * n) \div g, (s * d) \div g>>

RAdd(a, b) == Rat(a[1] * b[2] + b[1] * a[2], a[2] * b[2])
RSub(a, b) == Rat(a[1] * b[2] - b[1] * a[2], a[2] * b[2])
RMul(a, b) == Rat(a[1] * b[1], a[2] * b[2])
RDiv(a, b) == Rat(a[1] * b[2], a[2] * b[1])
RLe(a, b) == a[1] * b[2] <= b[1] * a[2]
RLt(a, b) == a[1] * b[2] < b[1] * a[2]

RECURSIVE Sum(_)
Sum(s) == IF s = <<>> THEN 0 ELSE Head(s) + Sum(Tail(s))

\* s (sorted ascending) with x inserted at its place
RECURSIVE Insert(_, _)
Insert(x, s) ==
    IF s = <<>> THEN <<x>>
    ELSE IF x <= Head(s) THEN <<x>> \o s
    ELSE <<Head(s)>> \o Insert(x, Tail(s))

RECURSIVE Sorted(_)
Sorted(s) == IF s = <<>> THEN <<>> ELSE Insert(Head(s), Sorted(Tail(s)))

\* the symbolic square root of a non-negative rational
Sqrt(v) == [sqrt |-> v]

(***************************************************************************)
(* cycle_stats.py: constants.                                              *)
(***************************************************************************)
NOOP_COL == "noop"

\* 10**10 in the source, scaled (see the head of the module)
OVERFLOW_THRESHOLD == 10

OUTPUT_HEADER ==
    <<"CPU", "mitigation", "kernel", "benchmark", "adjusted", "mean",
      "median", "p1", "p25", "p50", "p75", "p99", "std", "iqr",
      "min", "max">>

(***************************************************************************)
(* Python's int(str) on a CSV field.  A field is its sequence of           *)
(* characters; int() takes an optional sign and one or more decimal        *)
(* digits and raises ValueError on anything else (the empty field too).    *)
(***************************************************************************)
Digits == <<"0", "1", "2", "3", "4", "5", "6", "7", "8", "9">>

IsDigit(c) == \E k \in 1..10 : Digits[k] = c

DigitVal(c) == (CHOOSE k \in 1..10 : Digits[k] = c) - 1

RECURSIVE DecVal(_, _)
DecVal(ds, acc) ==
    IF ds = <<>> THEN acc ELSE DecVal(Tail(ds), 10 * acc + DigitVal(Head(ds)))

int(field) ==
    LET signed == field # <<>> /\ Head(field) \in {"-", "+"}
        ds == IF signed THEN Tail(field) ELSE field
    IN  IF ds = <<>> \/ \E k \in 1..Len(ds) : ~IsDigit(ds[k])
        THEN [ok |-> FALSE, exc |-> "ValueError"]
        ELSE [ok |-> TRUE,
              val |-> IF signed /\ Head(field) = "-"
                      THEN -DecVal(ds, 0) ELSE DecVal(ds, 0)]

(***************************************************************************)
(* calc_stats: the statistics of one array of measurements.                *)
(***************************************************************************)
\* An array a is [den |-> d, num |-> <<n1, n2, ...>>]: the numbers nk/d.
mean(a) == Rat(Sum(a.num), Len(a.num) * a.den)

\* np.median: the middle order statistic, or the mean of the two middle
\* ones (s is a.num sorted)
median(s, den) ==
    LET n == Len(s)
    IN  IF n % 2 = 1 THEN Rat(s[(n + 1) \div 2], den)
        ELSE Rat(s[n \div 2] + s[n \div 2 + 1], 2 * den)

\* percentile with the two neighbours' weights exchanged
percentile_swapped(s, den, q) ==
    LET n == Len(s)
        lo == ((n - 1) * q) \div 100
        g == ((n - 1) * q) % 100
        hi == IF lo + 1 > n - 1 THEN n - 1 ELSE lo + 1
    IN  Rat(100 * s[hi + 1] + g * (s[lo + 1] - s[hi + 1]), 100 * den)

\* np.percentile(a, q), method "linear": the virtual index (n-1)*q/100 is
\* split into its floor lo and its fraction gamma = g/100, and the result is
\* s[lo] + gamma * (s[lo+1] - s[lo]) on the sorted array (0-based there)
percentile(s, den, q) ==
    LET n == Len(s)
        lo == ((n - 1) * q) \div 100
        g == ((n - 1) * q) % 100
        hi == IF lo + 1 > n - 1 THEN n - 1 ELSE lo + 1
    IN  Rat(100 * s[lo + 1] + g * (s[hi + 1] - s[lo + 1]), 100 * den)

\* np.std: the square root of the mean squared deviation from the mean;
\* a[k] - mean is (n * num[k] - Sum(num)) / (n * den)
std(a) ==
    LET n == Len(a.num)
        total == Sum(a.num)
        dev2 == [k \in 1..n |-> (n * a.num[k] - total) * (n * a.num[k] - total)]
    IN  Sqrt(Rat(Sum(dev2), n * n * n * a.den * a.den))

\* calc_stats with a guard for the empty array: a row of eleven
\* placeholders in the place of the exception
calc_stats_guarded(measurements) ==
    IF measurements.num = <<>>
    THEN [ok |-> TRUE, row |-> [k \in 1..11 |-> <<0, 1>>]]
    ELSE [ok |-> TRUE,
          row |-> <<mean(measurements),
                    median(Sorted(measurements.num), measurements.den),
                    percentile(Sorted(measurements.num), measurements.den, 1),
                    percentile(Sorted(measurements.num), measurements.den, 25),
                    percentile(Sorted(measurements.num), measurements.den, 50),
                    percentile(Sorted(measurements.num), measurements.den, 75),
                    percentile(Sorted(measurements.num), measurements.den, 99),
                    std(measurements),
                    RSub(percentile(Sorted(measurements.num),
                                    measurements.den, 75),
                         percentile(Sorted(measurements.num),
                                    measurements.den, 25)),
                    Rat(Sorted(measurements.num)[1], measurements.den),
                    Rat(Sorted(measurements.num)[Len(measurements.num)],
                        measurements.den)>>]

\* An empty array: np.mean and np.median give nan, np.min raises ValueError.
calc_stats(measurements) ==
    IF measurements.num = <<>>
    THEN [ok |-> FALSE, exc |-> "ValueError"]
    ELSE LET s == Sorted(measurements.num)
             den == measurements.den
             percentiles == <<percentile(s, den, 1), percentile(s, den, 25),
                              percentile(s, den, 50), percentile(s, den, 75),
                              percentile(s, den, 99)>>
             iqr == RSub(percentiles[4], percentiles[2])
             minimum == Rat(s[1], den)
             maximum == Rat(s[Len(s)], den)
         IN  [ok |-> TRUE,
              row |-> <<mean(measurements), median(s, den)>>
                      \o percentiles
                      \o <<std(measurements), iqr, minimum, maximum>>]

(***************************************************************************)
(* read_csv.  A CSV file is the sequence of its lines as csv.reader        *)
(* yields them: the header (a sequence of column names) and the data rows  *)
(* (each a sequence of fields).                                            *)
(***************************************************************************)
Raise(e) == [ok |-> FALSE, exc |-> e]

\* read_row without the overflow filter of lines 102-103
RECURSIVE read_row_unfiltered(_, _, _)
read_row_unfiltered(values, row, i) ==
    IF i > Len(row) THEN [ok |-> TRUE, values |-> values]
    ELSE LET value == int(row[i])
         IN  IF ~value.ok THEN Raise(value.exc)
             ELSE IF i > Len(values) THEN Raise("IndexError")
             ELSE read_row_unfiltered(
                      [values EXCEPT ![i] = Append(@, value.val)], row, i + 1)

\* read_row with >= for the > of line 102
RECURSIVE read_row_ge(_, _, _)
read_row_ge(values, row, i) ==
    IF i > Len(row) THEN [ok |-> TRUE, values |-> values]
    ELSE LET value == int(row[i])
         IN  IF ~value.ok THEN Raise(value.exc)
             ELSE IF value.val >= OVERFLOW_THRESHOLD
                  THEN read_row_ge(values, row, i + 1)
             ELSE IF i > Len(values) THEN Raise("IndexError")
             ELSE read_row_ge([values EXCEPT ![i] = Append(@, value.val)],
                              row, i + 1)

\* lines 100-105 for the fields i.. of one row: int() first, then the
\* overflow filter, then the append to the column's list
RECURSIVE read_row(_, _, _)
read_row(values, row, i) ==
    IF i > Len(row) THEN [ok |-> TRUE, values |-> values]
    ELSE LET value == int(row[i])
         IN  IF ~value.ok THEN Raise(value.exc)
             ELSE IF value.val > OVERFLOW_THRESHOLD
                  THEN read_row(values, row, i + 1)
             ELSE IF i > Len(values) THEN Raise("IndexError")
             ELSE read_row([values EXCEPT ![i] = Append(@, value.val)],
                           row, i + 1)

\* lines 99-105: the rows in file order
RECURSIVE read_rows(_, _)
read_rows(values, rows) ==
    IF rows = <<>> THEN [ok |-> TRUE, values |-> values]
    ELSE LET r == read_row(values, Head(rows), 1)
         IN  IF ~r.ok THEN r ELSE read_rows(r.values, Tail(rows))

\* lines 94-105: the header and the filtered samples of every column
filter_values(lines) ==
    IF lines = <<>> THEN Raise("StopIteration")
    ELSE read_rows([k \in 1..Len(Head(lines)) |-> <<>>], Tail(lines))

\* line 107: a list of ints as an array
np_array(m) == [den |-> 1, num |-> m]

\* line 119: measurements - noop_median
shifted(measurements, by) ==
    [den |-> measurements.den * by[2],
     num |-> [k \in 1..Len(measurements.num) |->
                 measurements.num[k] * by[2] - by[1] * measurements.den]
             \o <<>>]

\* noop_median taken from result[0], the mean
noop_median_mean(header, results) ==
    LET noops == {k \in 1..Len(header) : header[k] = NOOP_COL}
    IN  IF noops = {} THEN [some |-> FALSE]
        ELSE [some |-> TRUE,
              val |-> results[CHOOSE j \in noops : \A l \in noops : l <= j][3]]

\* noop_median left at None: the comparison of line 114 never succeeds
noop_median_none(header, results) == [some |-> FALSE]

\* lines 108-115: noop_median after the first loop over the rows it
\* appended: result[1], the median, of the last column named noop, or None
noop_median(header, results) ==
    LET noops == {k \in 1..Len(header) : header[k] = NOOP_COL}
    IN  IF noops = {} THEN [some |-> FALSE]
        ELSE [some |-> TRUE,
              val |-> results[CHOOSE j \in noops : \A l \in noops : l <= j][4]]

\* lines 118-121: the adjusted rows, none while noop_median is None
adjusted_rows(header, values, m) ==
    IF ~m.some THEN <<>>
    ELSE [k \in 1..Len(header) |->
             <<header[k], TRUE>>
             \o calc_stats(shifted(np_array(values[k]), m.val)).row]

\* lines 110-112: the raw rows
raw_rows(header, values) ==
    [k \in 1..Len(header) |->
        <<header[k], FALSE>> \o calc_stats(np_array(values[k])).row] \o <<>>

\* lines 117-123, after the first loop has appended the raw rows
second_pass(header, values, raw) ==
    [ok |-> TRUE, values |-> values,
     results |-> raw \o adjusted_rows(header, values,
                                      noop_median(header, raw))]

\* lines 107-123: calc_stats raises on the first column left empty
aggregate(header, parsed) ==
    IF ~parsed.ok THEN [ok |-> FALSE, exc |-> parsed.exc, values |-> <<>>]
    ELSE IF /\ \E k \in 1..Len(parsed.values) : parsed.values[k] = <<>>
            /\ ~calc_stats(np_array(<<>>)).ok
    THEN [ok |-> FALSE, exc |-> calc_stats(np_array(<<>>)).exc,
          values |-> parsed.values]
    ELSE second_pass(header, parsed.values, raw_rows(header, parsed.values))

\* lines 94-123 with the list of line 105 kept: values is the filtered
\* sample list of every column, results what read_csv returns
read_csv_run(lines) ==
    aggregate(IF lines = <<>> THEN <<>> ELSE Head(lines), filter_values(lines))

\* what read_csv hands to its caller
returned(r) ==
    IF r.ok THEN [ok |-> TRUE, results |-> r.results] ELSE Raise(r.exc)

read_csv(lines) == returned(read_csv_run(lines))

(***************************************************************************)
(* The inputs of read_csv explored by SpecCsv.                             *)
(***************************************************************************)
\* "10" is the threshold itself, "11" exceeds it, "-11" exceeds it in
\* magnitude only
SampleFields == {<<"1", "0">>, <<"1", "1">>, <<"-", "1", "1">>}

CsvHeaders ==
    {<<"noop">>, <<"syscall_sys_ni_syscall">>,
     <<"noop", "syscall_sys_ni_syscall">>,
     <<"syscall_sys_ni_syscall", "noop">>}

\* the sequences over S of length 0..n
SeqUpTo(S, n) == UNION {[1..k -> S] : k \in 0..n}

CsvFiles ==
    {<<h>> \o rs : h \in CsvHeaders,
                   rs \in SeqUpTo(SeqUpTo(SampleFields, 2), MaxRows)}

(***************************************************************************)
(* The results/ tree of the statistics pipeline.  A directory is the       *)
(* sequence of its entries in the order scandir yields them; an entry is   *)
(* a directory or a file, and a name is its sequence of characters.        *)
(***************************************************************************)
DirEntry(name, entries) ==
    [name |-> name, is_dir |-> TRUE, is_file |-> FALSE,
     entries |-> entries, lines |-> <<>>]

FileEntry(name, lines) ==
    [name |-> name, is_dir |-> FALSE, is_file |-> TRUE,
     entries |-> <<>>, lines |-> lines]

\* INPUT_RE.match(name) for "cycles-(.+)\.csv": the name starts with
\* "cycles-", the greedy group takes at least one character and ends before
\* the last ".csv" that leaves it non-empty; nothing anchors the end
CyclesPrefix == <<"c", "y", "c", "l", "e", "s", "-">>

CsvSuffix == <<".", "c", "s", "v">>

INPUT_RE_match(name) ==
    LET p == Len(CyclesPrefix)
        ends == {j \in (p + 2)..(Len(name) - 3) :
                    SubSeq(name, j, j + 3) = CsvSuffix}
    IN  IF Len(name) >= p /\ SubSeq(name, 1, p) = CyclesPrefix /\ ends # {}
        THEN [matched |-> TRUE,
              group1 |-> SubSeq(name, p + 1,
                                (CHOOSE j \in ends : \A l \in ends : l <= j) - 1)]
        ELSE [matched |-> FALSE]

\* [[name] + r for r in rows]
Prepend(name, rows) == [k \in 1..Len(rows) |-> <<name>> \o rows[k]] \o <<>>

\* results += [[name] + r for r in read], then the rest of the loop; an
\* exception of the call, or of a later one, leaves the function
Extend(name, read, rest) ==
    IF ~read.ok THEN read
    ELSE IF ~rest.ok THEN rest
    ELSE [ok |-> TRUE,
          results |-> Prepend(name, read.results) \o rest.results]

\* read_kernels with the whole file name put before the rows
RECURSIVE read_kernels_whole_name(_)
read_kernels_whole_name(entries) ==
    IF entries = <<>> THEN [ok |-> TRUE, results |-> <<>>]
    ELSE IF ~Head(entries).is_file
            \/ ~INPUT_RE_match(Head(entries).name).matched
    THEN read_kernels_whole_name(Tail(entries))
    ELSE Extend(Head(entries).name,
                read_csv(Head(entries).lines),
                read_kernels_whole_name(Tail(entries)))

\* read_kernels over the entries of a mitigation directory
RECURSIVE read_kernels(_)
read_kernels(entries) ==
    IF entries = <<>> THEN [ok |-> TRUE, results |-> <<>>]
    ELSE IF ~Head(entries).is_file
            \/ ~INPUT_RE_match(Head(entries).name).matched
    THEN read_kernels(Tail(entries))
    ELSE Extend(INPUT_RE_match(Head(entries).name).group1,
                read_csv(Head(entries).lines),
                read_kernels(Tail(entries)))

\* read_mitigations over the entries of a CPU directory
RECURSIVE read_mitigations(_)
read_mitigations(entries) ==
    IF entries = <<>> THEN [ok |-> TRUE, results |-> <<>>]
    ELSE IF ~Head(entries).is_dir THEN read_mitigations(Tail(entries))
    ELSE Extend(Head(entries).name,
                read_kernels(Head(entries).entries),
                read_mitigations(Tail(entries)))

\* read_cpus over the entries of INPUT
RECURSIVE read_cpus(_)
read_cpus(entries) ==
    IF entries = <<>> THEN [ok |-> TRUE, results |-> <<>>]
    ELSE IF ~Head(entries).is_dir THEN read_cpus(Tail(entries))
    ELSE Extend(Head(entries).name,
                read_mitigations(Head(entries).entries),
                read_cpus(Tail(entries)))

(***************************************************************************)
(* The inputs of main() explored by Spec: the trees made of at most        *)
(* MaxFiles leaves, each a CSV file results/<cpu>/<mitigation>/<name>, a   *)
(* stray file beside the directories or a stray directory beside the CSV   *)
(* files, in every scan order.                                             *)
(***************************************************************************)
CpuNames == {<<"A", "M", "D">>, <<"i", "7">>}

MitigationNames ==
    {<<"m", "i", "t", "i", "g", "a", "t", "i", "o", "n", "s", "=">> \o w :
        w \in {<<"a", "u", "t", "o">>, <<"o", "f", "f">>}}

\* cycles-fastcall.csv and cycles-stock.csv.old (it matches: the end of the
\* pattern is not anchored)
KernelFileNames ==
    {CyclesPrefix \o <<"f", "a", "s", "t", "c", "a", "l", "l">> \o CsvSuffix,
     CyclesPrefix \o <<"s", "t", "o", "c", "k">> \o CsvSuffix
         \o <<".", "o", "l", "d">>}

\* misc-fccmp.csv, another benchmark's file: no match
OtherFileName == <<"m", "i", "s", "c", "-", "f", "c", "c", "m", "p">> \o CsvSuffix

StrayName == <<"R", "E", "A", "D", "M", "E">>

\* a file with the malformed field "1.5"
MalformedFile == << <<"noop">>, << <<"7">> >>, << <<"1", ".", "5">> >> >>

\* a file with a noop column, one without, and the malformed one
KernelFiles ==
    {<< <<"noop", "syscall_sys_ni_syscall">>,
        << <<"1", "0">>, <<"-", "1", "1">> >>,
        << <<"-", "1", "1">>, <<"1", "0">> >>,
        << <<"1", "0">>, <<"1", "1">> >> >>,
     << <<"syscall_sys_ni_syscall">>, << <<"7">> >> >>,
     MalformedFile}

\* a leaf and the directories that lead to it
Leaves ==
    {[path |-> <<c, m>>, entry |-> FileEntry(f, lines)] :
        c \in CpuNames, m \in MitigationNames,
        f \in KernelFileNames, lines \in KernelFiles}
    \cup {[path |-> <<c, m>>, entry |-> e] :
             c \in CpuNames, m \in MitigationNames,
             e \in {FileEntry(OtherFileName, MalformedFile),
                    DirEntry(StrayName, <<>>)}}
    \cup {[path |-> <<c>>, entry |-> FileEntry(StrayName, <<>>)] :
             c \in CpuNames}
    \cup {[path |-> <<>>, entry |-> FileEntry(StrayName, <<>>)]}

HasName(entries, name) == \E k \in 1..Len(entries) : entries[k].name = name

\* the directory `entries` with the leaf added below `path`; a name already
\* taken is kept as it is
RECURSIVE AddLeaf(_, _, _)
AddLeaf(entries, path, entry) ==
    IF path = <<>>
    THEN IF HasName(entries, entry.name) THEN entries
         ELSE Append(entries, entry)
    ELSE IF HasName(entries, Head(path))
    THEN [k \in 1..Len(entries) |->
             IF entries[k].name = Head(path) /\ entries[k].is_dir
             THEN [entries[k] EXCEPT
                      !.entries = AddLeaf(@, Tail(path), entry)]
             ELSE entries[k]] \o <<>>
    ELSE Append(entries,
                DirEntry(Head(path), AddLeaf(<<>>, Tail(path), entry)))

RECURSIVE TreesOf(_)
TreesOf(n) ==
    IF n = 0 THEN {<<>>}
    ELSE LET smaller == TreesOf(n - 1)
         IN  smaller \cup {AddLeaf(t, l.path, l.entry) :
                              t \in smaller, l \in Leaves}

Trees == TreesOf(MaxFiles)

\* a file whose second column holds samples above the threshold only, a
\* file of a header and no data rows, and a file read_csv aggregates
EmptyColumnFile ==
    << <<"noop", "syscall_sys_ni_syscall">>,
       << <<"1", "0">>, <<"1", "1">> >>,
       << <<"-", "1", "1">>, <<"1", "1">> >> >>

NoRowsFile == << <<"noop">> >>

TwoColumnFile ==
    << <<"noop", "syscall_sys_ni_syscall">>,
       << <<"1", "0">>, <<"-", "1", "1">> >>,
       << <<"-", "1", "1">>, <<"1", "0">> >> >>

\* cycles-fastcall.csv with such a content
EmptyLeaves ==
    {[path |-> <<c, m>>,
      entry |-> FileEntry(CyclesPrefix
                             \o <<"f", "a", "s", "t", "c", "a", "l", "l">>
                             \o CsvSuffix,
                          lines)] :
        c \in CpuNames, m \in MitigationNames,
        lines \in {EmptyColumnFile, NoRowsFile, TwoColumnFile}}

\* the trees of at most n of these leaves
RECURSIVE EmptyTreesOf(_)
EmptyTreesOf(n) ==
    IF n = 0 THEN {<<>>}
    ELSE EmptyTreesOf(n - 1)
         \cup {AddLeaf(t, l.path, l.entry) :
                  t \in EmptyTreesOf(n - 1), l \in EmptyLeaves}

EmptyTrees == EmptyTreesOf(MaxFiles)

\* ./cycle_stats.csv before the run: absent, or left by an earlier run
NoFile == [exists |-> FALSE, rows |-> <<>>]

OldFile == [exists |-> TRUE, rows |-> <<OUTPUT_HEADER, <<"stale">> >>]

(***************************************************************************)
(* plotting/utils.py: constants.  Dictionaries are kept as the sequences   *)
(* of their keys (and values) in insertion order, which is the order       *)
(* Python iterates them in.                                                *)
(***************************************************************************)
PLOTTED_CPUS ==
    <<"AMD_Ryzen_7_3700X_8-Core_Processor",
      "Intel(R)_Xeon(R)_Platinum_8375C_CPU_@_2.90GHz",
      "Intel(R)_Core(TM)_i7-4790_CPU_@_3.60GHz">>

MITIGATIONS == <<"mitigations=auto", "nopti%mds=off", "mitigations=off">>

METHODS == <<"vdso", "fastcall", "syscall", "ioctl">>

\* the identifying substrings of every scenario, as character sequences
SCENARIOS ==
    <<[title |-> "Empty Function",
       idents |-> {<<"f", "a", "s", "t", "c", "a", "l", "l", "_", "e", "x",
                     "a", "m", "p", "l", "e", "s", "_", "n", "o", "o", "p">>,
                   <<"i", "o", "c", "t", "l", "_", "n", "o", "o", "p">>,
                   <<"s", "y", "s", "c", "a", "l", "l", "_", "s", "y", "s",
                     "_", "n", "i", "_", "s", "y", "s", "c", "a", "l", "l">>,
                   <<"v", "d", "s", "o", "_", "n", "o", "o", "p">>}],
      [title |-> "64-Byte Copy",
       idents |-> {<<"a", "r", "r", "a", "y", "/", "6", "4">>}]>>

SCENARIO_COLUMN == "name"

RESULT_COLUMN == "cpu_time"

BYTES_COLUMN == "bytes_per_second"

(***************************************************************************)
(* Floating point values: a rational <<num, den>>, or nan.                 *)
(***************************************************************************)
nan == <<0, 0>>

isnan(x) == x = nan

RECURSIVE Pow10(_)
Pow10(n) == IF n = 0 THEN 1 ELSE 10 * Pow10(n - 1)

AllDigits(ds) == \A k \in 1..Len(ds) : IsDigit(ds[k])

\* the digits before and after the decimal point as a number
Decimal(whole, frac, negative) ==
    IF whole \o frac = <<>> \/ ~AllDigits(whole \o frac)
    THEN Raise("ValueError")
    ELSE [ok |-> TRUE,
          val |-> Rat((IF negative THEN -1 ELSE 1) * DecVal(whole \o frac, 0),
                      Pow10(Len(frac)))]

\* the unsigned text ds split at its first "."
Unsigned(ds, negative) ==
    IF \E k \in 1..Len(ds) : ds[k] = "."
    THEN Decimal(SubSeq(ds, 1, (CHOOSE k \in 1..Len(ds) :
                                   /\ ds[k] = "."
                                   /\ \A l \in 1..(k - 1) : ds[l] # ".") - 1),
                 SubSeq(ds, (CHOOSE k \in 1..Len(ds) :
                                /\ ds[k] = "."
                                /\ \A l \in 1..(k - 1) : ds[l] # ".") + 1,
                        Len(ds)),
                 negative)
    ELSE Decimal(ds, <<>>, negative)

\* Python's float(str) on a CSV field: an optional sign, digits with an
\* optional decimal point; ValueError on anything else (the empty field
\* too).  Exponents, "inf" and "nan" are not among the fields explored.
float(field) ==
    IF field # <<>> /\ Head(field) \in {"-", "+"}
    THEN Unsigned(Tail(field), Head(field) = "-")
    ELSE Unsigned(field, FALSE)

(***************************************************************************)
(* find_scenario and read_method.                                          *)
(***************************************************************************)
\* ident in label
Contains(label, ident) ==
    \E k \in 1..(Len(label) - Len(ident) + 1) :
        SubSeq(label, k, k + Len(ident) - 1) = ident

None == [found |-> FALSE]

\* find_scenario scanning the table from its end
RECURSIVE find_from_last(_, _)
find_from_last(label, i) ==
    IF i < 1 THEN None
    ELSE IF \E ident \in SCENARIOS[i].idents : Contains(label, ident)
    THEN [found |-> TRUE, index |-> i - 1]
    ELSE find_from_last(label, i - 1)

find_scenario_last(label) == find_from_last(label, Len(SCENARIOS))

\* lines 121-124 from scenario i on (i counts from 1, the index returned
\* from 0 as enumerate does)
RECURSIVE find_from(_, _)
find_from(label, i) ==
    IF i > Len(SCENARIOS) THEN None
    ELSE IF \E ident \in SCENARIOS[i].idents : Contains(label, ident)
    THEN [found |-> TRUE, index |-> i - 1]
    ELSE find_from(label, i + 1)

find_scenario(label) == find_from(label, 1)

\* np.zeros((len(SCENARIOS), 2))
zeros == [i \in 1..Len(SCENARIOS) |-> <<<<0, 1>>, <<0, 1>>>>]

\* header.index(column): the first position, counted from 1 here
IndexOf(header, column) ==
    CHOOSE k \in 1..Len(header) :
        /\ header[k] = column
        /\ \A l \in 1..(k - 1) : header[l] # column

\* lines 114-115: the throughput of a row whose latency has been stored
store_throughput(array, i, row, bytes_col) ==
    IF bytes_col > Len(row) THEN Raise("IndexError")
    ELSE IF row[bytes_col] = <<>>
    THEN [ok |-> TRUE, array |-> [array EXCEPT ![i][2] = nan]]
    ELSE IF ~float(row[bytes_col]).ok THEN Raise("ValueError")
    ELSE [ok |-> TRUE,
          array |-> [array EXCEPT ![i][2] = float(row[bytes_col]).val]]

\* lines 113-115 for a row that belongs to scenario i (counted from 1)
store_row(array, i, row, result_col, bytes_col) ==
    IF result_col > Len(row) THEN Raise("IndexError")
    ELSE IF ~float(row[result_col]).ok THEN Raise("ValueError")
    ELSE store_throughput([array EXCEPT ![i][1] = float(row[result_col]).val],
                          i, row, bytes_col)

\* read_row_of_method without the test of lines 111-112: numpy takes the
\* index None as a new axis, and the assignment fills every scenario
method_row_unchecked(array, row, scen_col, result_col, bytes_col) ==
    IF scen_col > Len(row) THEN Raise("IndexError")
    ELSE IF ~find_scenario(row[scen_col]).found
    THEN IF result_col > Len(row) \/ bytes_col > Len(row)
         THEN Raise("IndexError")
         ELSE IF ~float(row[result_col]).ok THEN Raise("ValueError")
         ELSE [ok |-> TRUE,
               array |-> [i \in 1..Len(array) |->
                             <<float(row[result_col]).val, nan>>]]
    ELSE store_row(array, find_scenario(row[scen_col]).index + 1, row,
                   result_col, bytes_col)

\* method_row that leaves a scenario alone once a row has filled it
method_row_first_wins(array, row, scen_col, result_col, bytes_col) ==
    IF scen_col > Len(row) THEN Raise("IndexError")
    ELSE IF ~find_scenario(row[scen_col]).found
    THEN [ok |-> TRUE, array |-> array]
    ELSE IF array[find_scenario(row[scen_col]).index + 1]
               # <<<<0, 1>>, <<0, 1>>>>
    THEN [ok |-> TRUE, array |-> array]
    ELSE store_row(array, find_scenario(row[scen_col]).index + 1, row,
                   result_col, bytes_col)

\* lines 109-115: one row of the file
method_row(array, row, scen_col, result_col, bytes_col) ==
    IF scen_col > Len(row) THEN Raise("IndexError")
    ELSE IF ~find_scenario(row[scen_col]).found
    THEN [ok |-> TRUE, array |-> array]
    ELSE store_row(array, find_scenario(row[scen_col]).index + 1, row,
                   result_col, bytes_col)

\* lines 108-115: the rows in file order, from the array so far
RECURSIVE method_rows(_, _, _, _, _)
method_rows(so_far, rows, scen_col, result_col, bytes_col) ==
    IF ~so_far.ok \/ rows = <<>> THEN so_far
    ELSE method_rows(method_row(so_far.array, Head(rows),
                                scen_col, result_col, bytes_col),
                     Tail(rows), scen_col, result_col, bytes_col)

HasColumn(header, column) == \E k \in 1..Len(header) : header[k] = column

\* A leaf file is [exists |-> ..., lines |-> ...]: open() raises
\* FileNotFoundError when it is absent, next(reader) StopIteration when it
\* is empty, header.index ValueError when a column is not in the header.
read_method(method_file) ==
    IF ~method_file.exists THEN Raise("FileNotFoundError")
    ELSE IF method_file.lines = <<>> THEN Raise("StopIteration")
    ELSE IF \/ ~HasColumn(Head(method_file.lines), SCENARIO_COLUMN)
            \/ ~HasColumn(Head(method_file.lines), RESULT_COLUMN)
            \/ ~HasColumn(Head(method_file.lines), BYTES_COLUMN)
    THEN Raise("ValueError")
    ELSE method_rows([ok |-> TRUE, array |-> zeros],
                     Tail(method_file.lines),
                     IndexOf(Head(method_file.lines), SCENARIO_COLUMN),
                     IndexOf(Head(method_file.lines), RESULT_COLUMN),
                     IndexOf(Head(method_file.lines), BYTES_COLUMN))

Absent == [exists |-> FALSE, lines |-> <<>>]

Present(lines) == [exists |-> TRUE, lines |-> lines]

(***************************************************************************)
(* The inputs of read_method explored by SpecMethod.                       *)
(***************************************************************************)
\* the pieces labels are put together from
LabelPieces ==
    {<<"f", "a", "s", "t", "c", "a", "l", "l", "_", "e", "x", "a", "m", "p",
       "l", "e", "s", "_">>,
     <<"n", "o", "o", "p">>,
     <<"i", "o", "c", "t", "l", "_">>,
     <<"v", "d", "s", "o", "_">>,
     <<"s", "y", "s", "c", "a", "l", "l", "_", "s", "y", "s", "_", "n", "i",
       "_", "s", "y", "s", "c", "a", "l", "l">>,
     <<"a", "r", "r", "a", "y", "/">>,
     <<"6", "4">>,
     <<"1", "6">>}

\* the concatenations of 1..n pieces
RECURSIVE LabelsOf(_)
LabelsOf(n) ==
    IF n = 0 THEN {<<>>}
    ELSE LabelsOf(n - 1)
         \cup {l \o p : l \in LabelsOf(n - 1), p \in LabelPieces}

Labels == LabelsOf(MaxPieces)

\* vdso_noop, vdso_copy_array/64, both at once, and vdso_copy_array/16
RowLabels ==
    {<<"v", "d", "s", "o", "_", "n", "o", "o", "p">>,
     <<"v", "d", "s", "o", "_", "c", "o", "p", "y", "_", "a", "r", "r", "a",
       "y", "/", "6", "4">>,
     <<"v", "d", "s", "o", "_", "n", "o", "o", "p", "_", "a", "r", "r", "a",
       "y", "/", "6", "4">>,
     <<"v", "d", "s", "o", "_", "c", "o", "p", "y", "_", "a", "r", "r", "a",
       "y", "/", "1", "6">>}

MethodHeaders ==
    {<<"name", "cpu_time", "bytes_per_second">>,
     <<"bytes_per_second", "name", "iterations", "cpu_time">>,
     <<"name", "cpu_time">>}

\* a row with its three fields under the columns of the header, and "1" in
\* every other column
LayOut(header, label, cpu_time, bytes) ==
    [k \in 1..Len(header) |->
        CASE header[k] = SCENARIO_COLUMN -> label
          [] header[k] = RESULT_COLUMN -> cpu_time
          [] header[k] = BYTES_COLUMN -> bytes
          [] OTHER -> <<"1">>]

\* "3", "4.5" and a blank latency; "8" and a blank throughput
MethodRows(header) ==
    {LayOut(header, label, cpu_time, bytes) :
        label \in RowLabels,
        cpu_time \in {<<"3">>, <<"4", ".", "5">>, <<>>},
        bytes \in {<<"8">>, <<>>}}

\* the leaf files with at most n rows
MethodFiles(n) ==
    {Absent, Present(<<>>)}
    \cup UNION {{Present(<<h>> \o rows) : rows \in SeqUpTo(MethodRows(h), n)} :
                 h \in MethodHeaders}
    \cup {Present(<<<<"name", "cpu_time", "bytes_per_second">>,
                    <<label, <<"3">>, <<"8">>>>>>) : label \in Labels}

(***************************************************************************)
(* read_mitigation, read_cpu and the results/ tree of the plotting         *)
(* pipeline.  An entry of results/ is [name, is_dir, leaves], where        *)
(* leaves[mi][me] is the file <name>/<MITIGATIONS[mi]>/<METHODS[me]>.csv.  *)
(***************************************************************************)
\* results.append(read ...) before the rest of the loop and np.stack: the
\* first exception in loop order leaves the function
Stacked(read, rest) ==
    IF ~read.ok THEN read
    ELSE IF ~rest.ok THEN rest
    ELSE [ok |-> TRUE, array |-> <<read.array>> \o rest.array]

\* lines 90-92 from method me on
RECURSIVE read_methods_from(_, _)
read_methods_from(miti_dir, me) ==
    IF me > Len(METHODS) THEN [ok |-> TRUE, array |-> <<>>]
    ELSE Stacked(read_method(miti_dir[me]),
                 read_methods_from(miti_dir, me + 1))

\* the methods taken in the reverse of the order of METHODS
read_mitigation_reversed(miti_dir) ==
    read_methods_from([me \in 1..Len(METHODS) |->
                          miti_dir[Len(METHODS) + 1 - me]], 1)

\* lines 87-93
read_mitigation(miti_dir) == read_methods_from(miti_dir, 1)

\* lines 81-83 from mitigation mi on
RECURSIVE read_mitigations_from(_, _)
read_mitigations_from(cpu_dir, mi) ==
    IF mi > Len(MITIGATIONS) THEN [ok |-> TRUE, array |-> <<>>]
    ELSE Stacked(read_mitigation(cpu_dir[mi]),
                 read_mitigations_from(cpu_dir, mi + 1))

read_cpu(cpu_dir) == read_mitigations_from(cpu_dir, 1)

\* the label of the empty-function benchmark of every method
NoopLabels ==
    <<<<"v", "d", "s", "o", "_", "n", "o", "o", "p">>,
      <<"f", "a", "s", "t", "c", "a", "l", "l", "_", "e", "x", "a", "m", "p",
        "l", "e", "s", "_", "n", "o", "o", "p">>,
      <<"s", "y", "s", "c", "a", "l", "l", "_", "s", "y", "s", "_", "n", "i",
        "_", "s", "y", "s", "c", "a", "l", "l">>,
      <<"i", "o", "c", "t", "l", "_", "n", "o", "o", "p">>>>

\* the leaf of CPU c, mitigation mi and method me: the latency of its two
\* rows spells its place in the tree, the empty function has no throughput
LeafOf(c, mi, me) ==
    Present(<<<<SCENARIO_COLUMN, RESULT_COLUMN, BYTES_COLUMN>>,
              <<NoopLabels[me], <<Digits[c + 1], Digits[mi + 1], Digits[me + 1]>>,
                <<>>>>,
              <<<<"a", "r", "r", "a", "y", "/", "6", "4">>,
                <<Digits[c + 1], Digits[mi + 1], Digits[me + 1], "0">>,
                <<"8">>>>>>)

CompleteLeaves(c) ==
    [mi \in 1..Len(MITIGATIONS) |->
        [me \in 1..Len(METHODS) |-> LeafOf(c, mi, me)]]

\* the places a leaf is taken away from
MissingPlaces == (1..Len(MITIGATIONS)) \X (1..Len(METHODS))

\* the directory of a CPU: complete, with one leaf missing, or with a
\* whole mitigation directory missing
CpuLeaves(c) ==
    {CompleteLeaves(c)}
    \cup {[CompleteLeaves(c) EXCEPT ![p[1]][p[2]] = Absent] :
             p \in MissingPlaces}
    \cup {[CompleteLeaves(c) EXCEPT
              ![2] = [me \in 1..Len(METHODS) |-> Absent]]}

NoLeaves ==
    [mi \in 1..Len(MITIGATIONS) |-> [me \in 1..Len(METHODS) |-> Absent]]

\* the directories of the CPUs that are plotted, a directory of a CPU that
\* is not (empty, or complete), and a plain file
PlotEntries ==
    UNION {{[name |-> PLOTTED_CPUS[c], is_dir |-> TRUE, leaves |-> l] :
               l \in CpuLeaves(c)} : c \in 1..Len(PLOTTED_CPUS)}
    \cup {[name |-> "Intel(R)_Atom(TM)_CPU_N270_@_1.60GHz", is_dir |-> TRUE,
           leaves |-> l] : l \in {NoLeaves, CompleteLeaves(0)}}
    \cup {[name |-> "README.md", is_dir |-> FALSE, leaves |-> NoLeaves]}

\* the listings of a directory: no two entries of the same name
ListingsOf(entries, n) ==
    {t \in SeqUpTo(entries, n) :
        \A i, j \in 1..Len(t) : t[i].name = t[j].name => i = j}

PlotTrees == ListingsOf(PlotEntries, MaxEntries)

(***************************************************************************)
(* plotting/fork.py.  Its MITIGATIONS, read_cpu and read_mitigation carry  *)
(* the prefix fork_ here, the names being taken by plotting/utils.py.      *)
(***************************************************************************)
fork_MITIGATIONS == <<"mitigations=auto", "mitigations=off">>

MEASURES == <<"fork-simple", "fork-fastcall">>

KERNELS ==
    <<[kernel |-> "fastcall", file |-> "misc-fastcall.csv"],
      [kernel |-> "stock", file |-> "misc-fccmp.csv"]>>

SAMPLES == 10000

\* 10 ** -3
SCALING == Rat(1, 1000)

\* the "no data" sentinel, and an array that was read
NoData == [ok |-> TRUE, none |-> TRUE]

Data(array) == [ok |-> TRUE, none |-> FALSE, array |-> array]

\* lines 124-130: MEASURES.index(col), or -1
col_map(header) ==
    [i \in 1..Len(header) |->
        IF \E k \in 1..Len(MEASURES) : MEASURES[k] = header[i]
        THEN (CHOOSE k \in 1..Len(MEASURES) : MEASURES[k] = header[i]) - 1
        ELSE -1]

\* np.full(len(MEASURES), np.nan)
full_nan == [k \in 1..Len(MEASURES) |-> nan]

\* lines 137-140 from field i of the row on
RECURSIVE kernel_row(_, _, _, _)
kernel_row(array, row, i, map) ==
    IF i > Len(row) THEN [ok |-> TRUE, array |-> array]
    ELSE IF i > Len(map) THEN Raise("IndexError")
    ELSE IF map[i] < 0 THEN kernel_row(array, row, i + 1, map)
    ELSE IF ~float(row[i]).ok THEN Raise("ValueError")
    ELSE kernel_row([array EXCEPT ![map[i] + 1] = float(row[i]).val],
                    row, i + 1, map)

\* lines 132-141: the rows in file order
RECURSIVE kernel_rows(_, _)
kernel_rows(rows, map) ==
    IF rows = <<>> THEN [ok |-> TRUE, array |-> <<>>]
    ELSE Stacked(kernel_row(full_nan, Head(rows), 1, map),
                 kernel_rows(Tail(rows), map))

\* the k-th smallest of the numbers xs
Kth(xs, k) ==
    CHOOSE x \in {xs[j] : j \in 1..Len(xs)} :
        /\ Cardinality({j \in 1..Len(xs) : RLt(xs[j], x)}) < k
        /\ Cardinality({j \in 1..Len(xs) : RLe(xs[j], x)}) >= k

\* np.median of a column: nan as soon as one element is
AVERAGE(xs) ==
    IF \E j \in 1..Len(xs) : isnan(xs[j]) THEN nan
    ELSE IF Len(xs) % 2 = 1 THEN Kth(xs, (Len(xs) + 1) \div 2)
    ELSE RDiv(RAdd(Kth(xs, Len(xs) \div 2), Kth(xs, Len(xs) \div 2 + 1)),
              Rat(2, 1))

Scaled(x) == IF isnan(x) THEN nan ELSE RMul(x, SCALING)

\* lines 142-145: np.stack raises ValueError on an empty list
averaged(read) ==
    IF ~read.ok THEN read
    ELSE IF read.array = <<>> THEN Raise("ValueError")
    ELSE Data([k \in 1..Len(MEASURES) |->
                  Scaled(AVERAGE([r \in 1..Len(read.array) |->
                                     read.array[r][k]]))])

\* the rows the loop of line 132 gets to before its break
Sampled(rows) ==
    SubSeq(rows, 1, IF Len(rows) < SAMPLES THEN Len(rows) ELSE SAMPLES)

read_kernel(data_file) ==
    IF ~data_file.exists THEN NoData
    ELSE IF data_file.lines = <<>> THEN Raise("StopIteration")
    ELSE averaged(kernel_rows(Sampled(Tail(data_file.lines)),
                              col_map(Head(data_file.lines))))

\* `if array is None: return None` before results.append(array), the rest
\* of the loop and np.stack
StackedOrNone(read, rest) ==
    IF ~read.ok \/ read.none THEN read
    ELSE IF ~rest.ok \/ rest.none THEN rest
    ELSE Data(<<read.array>> \o rest.array)

\* lines 101-108 from kernel k on
RECURSIVE read_kernels_from(_, _)
read_kernels_from(miti_dir, k) ==
    IF k > Len(KERNELS) THEN Data(<<>>)
    ELSE StackedOrNone(read_kernel(miti_dir[k]),
                       read_kernels_from(miti_dir, k + 1))

fork_read_mitigation(miti_dir) == read_kernels_from(miti_dir, 1)

\* read_cpu with `continue` in the place of `return None`: a mitigation
\* without data is left out of the array
RECURSIVE read_cpu_skipping_from(_, _)
read_cpu_skipping_from(cpu_dir, mi) ==
    IF mi > Len(fork_MITIGATIONS) THEN Data(<<>>)
    ELSE IF ~fork_read_mitigation(cpu_dir[mi]).ok
    THEN fork_read_mitigation(cpu_dir[mi])
    ELSE IF fork_read_mitigation(cpu_dir[mi]).none
    THEN read_cpu_skipping_from(cpu_dir, mi + 1)
    ELSE StackedOrNone(fork_read_mitigation(cpu_dir[mi]),
                       read_cpu_skipping_from(cpu_dir, mi + 1))

fork_read_cpu_skipping(cpu_dir) ==
    IF ~read_cpu_skipping_from(cpu_dir, 1).ok
    THEN read_cpu_skipping_from(cpu_dir, 1)
    ELSE IF read_cpu_skipping_from(cpu_dir, 1).array = <<>>
    THEN Raise("ValueError")
    ELSE read_cpu_skipping_from(cpu_dir, 1)

\* lines 84-91 from mitigation mi on
RECURSIVE fork_read_mitigations_from(_, _)
fork_read_mitigations_from(cpu_dir, mi) ==
    IF mi > Len(fork_MITIGATIONS) THEN Data(<<>>)
    ELSE StackedOrNone(fork_read_mitigation(cpu_dir[mi]),
                       fork_read_mitigations_from(cpu_dir, mi + 1))

fork_read_cpu(cpu_dir) == fork_read_mitigations_from(cpu_dir, 1)

(***************************************************************************)
(* The results/ tree of the fork pipeline.  An entry is [name, is_dir,     *)
(* files], where files[mi][k] is <name>/<fork_MITIGATIONS[mi]>/<file of    *)
(* KERNELS[k]>.                                                            *)
(***************************************************************************)
\* the file of the fastcall kernel: both measures, rows not in order
FastcallFile(c, mi) ==
    Present(<<<<"fork-simple", "fork-fastcall">>,
              <<<<"3", Digits[c + 1], "0", "0">>,
                <<"6", Digits[mi + 1], "5", "0">>>>,
              <<<<"1", Digits[c + 1], "0", "0">>,
                <<"4", Digits[mi + 1], "5", "0">>>>,
              <<<<"2", Digits[c + 1], "0", "0">>,
                <<"5", Digits[mi + 1], "5", "0">>>>>>)

\* the file of the stock kernel: no fork-fastcall column, two rows
StockFile(c, mi) ==
    Present(<<<<"iteration", "fork-simple">>,
              <<<<"0">>, <<"1", Digits[c + 1], "0", "0">>>>,
              <<<<"1">>, <<"1", Digits[mi + 1], "5", "1">>>>>>)

\* a file with a field that is no number, and one with its header only
BadFile ==
    Present(<<<<"fork-simple", "fork-fastcall">>,
              <<<<"1", "0", "0", "0">>, <<"n", "/", "a">>>>>>)

HeaderOnly == Present(<<<<"fork-simple", "fork-fastcall">>>>)

CompleteFiles(c) ==
    [mi \in 1..Len(fork_MITIGATIONS) |->
        <<FastcallFile(c, mi), StockFile(c, mi)>>]

NoFiles ==
    [mi \in 1..Len(fork_MITIGATIONS) |-> [k \in 1..Len(KERNELS) |-> Absent]]

\* the directory of a CPU: complete; one file missing; no file at all; a
\* malformed file; a missing file before or after a malformed one
CpuFiles(c) ==
    {CompleteFiles(c), NoFiles}
    \cup {[CompleteFiles(c) EXCEPT ![mi][k] = Absent] :
             mi \in 1..Len(fork_MITIGATIONS), k \in 1..Len(KERNELS)}
    \cup {[CompleteFiles(c) EXCEPT ![1][1] = BadFile],
          [CompleteFiles(c) EXCEPT ![2][2] = HeaderOnly],
          [CompleteFiles(c) EXCEPT ![1][1] = Absent, ![2][1] = BadFile],
          [CompleteFiles(c) EXCEPT ![1][1] = BadFile, ![2][1] = Absent]}

ForkEntries ==
    UNION {{[name |-> PLOTTED_CPUS[c], is_dir |-> TRUE, files |-> f] :
               f \in CpuFiles(c)} : c \in {1, 3}}
    \cup {[name |-> "README.md", is_dir |-> FALSE, files |-> NoFiles]}

ForkTrees == ListingsOf(ForkEntries, MaxEntries)

\* the names of the entries, in their order
NamesOf(entries) == [i \in 1..Len(entries) |-> entries[i].name]

(***************************************************************************)
(* plotting/percpu.py.  A value of a numpy array is a rational, nan or     *)
(* inf.  LATENCY_TO_SECONDS (1e-9) is scaled to 1e-3 to keep the           *)
(* reciprocals within TLC's integers: plot_scenario and draw_arrow look    *)
(* at the order and the zeros of the values only.                          *)
(***************************************************************************)
inf == <<1, 0>>

isfinite(x) == x[2] # 0

LATENCY_TO_SECONDS == Rat(1, 1000)

\* the keys of EVALUATIONS in the order lines 68, 77 and 85 insert them
EVALUATIONS == <<"latency", "throughput_invocations", "throughput_bytes">>

\* numpy's a * x for a finite a > 0
Times(a, x) == IF isfinite(x) THEN RMul(a, x) ELSE x

\* numpy's 1 / x: inf (and a warning) for x = 0
Reciprocal(x) ==
    IF isnan(x) THEN nan
    ELSE IF x = inf THEN <<0, 1>>
    ELSE IF x[1] = 0 THEN inf
    ELSE Rat(x[2], x[1])

\* numpy's y / x for values that are not nan
Quotient(y, x) ==
    IF isfinite(x) /\ x[1] = 0
    THEN (IF isfinite(y) /\ y[1] = 0 THEN nan ELSE inf)
    ELSE IF x = inf THEN (IF y = inf THEN nan ELSE <<0, 1>>)
    ELSE IF y = inf THEN inf
    ELSE RDiv(y, x)

\* y > x for values that are not nan
Greater(y, x) ==
    IF y = inf THEN x # inf
    ELSE IF x = inf THEN FALSE
    ELSE RLt(x, y)

\* lines 63-85: what the function of the evaluation hands to plot_scenario
\* for one cell <<latency, throughput>>
evaluate(evaluation, cell) ==
    CASE evaluation = "latency" -> cell[1]
      [] evaluation = "throughput_invocations"
            -> Reciprocal(Times(LATENCY_TO_SECONDS, cell[1]))
      [] evaluation = "throughput_bytes" -> cell[2]

\* line 60 and the function of the evaluation: the (mitigation x method)
\* slice of scenario s (counted from 1) of the array of one CPU
chart_slice(cpu_array, evaluation, s) ==
    [mi \in 1..Len(MITIGATIONS) |->
        [me \in 1..Len(METHODS) |-> evaluate(evaluation, cpu_array[mi][me][s])]]

\* np.any(np.isnan(results))
any_isnan(slice) ==
    \E mi \in 1..Len(slice) : \E me \in 1..Len(slice[mi]) :
        isnan(slice[mi][me])

any_isinf(slice) ==
    \E mi \in 1..Len(slice) : \E me \in 1..Len(slice[mi]) :
        slice[mi][me] = inf

ARROW_METHODS == <<"fastcall", "syscall">>

\* indices counted from 0, as list.index does
ARROW_IDS ==
    [k \in 1..Len(ARROW_METHODS) |-> IndexOf(METHODS, ARROW_METHODS[k]) - 1]

ARROW_MITIGATION == IndexOf(MITIGATIONS, "mitigations=auto") - 1

\* lines 126-132: arrow_ys, the smaller one first
arrow_ys(slice) ==
    IF Greater(slice[ARROW_MITIGATION + 1][ARROW_IDS[1] + 1],
               slice[ARROW_MITIGATION + 1][ARROW_IDS[2] + 1])
    THEN <<slice[ARROW_MITIGATION + 1][ARROW_IDS[2] + 1],
           slice[ARROW_MITIGATION + 1][ARROW_IDS[1] + 1]>>
    ELSE <<slice[ARROW_MITIGATION + 1][ARROW_IDS[1] + 1],
           slice[ARROW_MITIGATION + 1][ARROW_IDS[2] + 1]>>

\* line 141: round() of a quotient that is nan or inf raises ValueError or
\* OverflowError where numpy hands round() to Python's float, and gives nan
\* or inf where it does not; both are outcomes
draw_arrow_of(ys) ==
    IF isnan(Quotient(ys[2], ys[1])) THEN {"ValueError", "drawn"}
    ELSE IF Quotient(ys[2], ys[1]) = inf THEN {"OverflowError", "drawn"}
    ELSE {"drawn"}

draw_arrow(slice) == draw_arrow_of(arrow_ys(slice))

\* lines 112-120 once the arrow is drawn: whether matplotlib lays out and
\* saves bars of infinite height is left open
saved_or_raised(slice) ==
    IF any_isinf(slice) THEN {"saved", "ValueError"} ELSE {"saved"}

\* plot_scenario with its figure made before the test of line 94
plot_scenario_unchecked(slice) ==
    IF any_isnan(slice) THEN {"saved"}
    ELSE (draw_arrow(slice) \ {"drawn"}) \cup saved_or_raised(slice)

\* the ways plot_scenario can end: "skipped" (line 95), "saved" (line 119)
\* or the exception that leaves it
plot_scenario(slice) ==
    IF any_isnan(slice) THEN {"skipped"}
    ELSE (draw_arrow(slice) \ {"drawn"}) \cup saved_or_raised(slice)

(***************************************************************************)
(* The Results objects handed to percpu.plot and cpucmp.plot.              *)
(***************************************************************************)
\* the leaf of LeafOf with the throughput fields given, and the one without
\* its row of the 64-byte copy
LeafWith(c, mi, me, noop_bytes, copy_bytes) ==
    Present(<<<<SCENARIO_COLUMN, RESULT_COLUMN, BYTES_COLUMN>>,
              <<NoopLabels[me], <<Digits[c + 1], Digits[mi + 1], Digits[me + 1]>>,
                noop_bytes>>,
              <<<<"a", "r", "r", "a", "y", "/", "6", "4">>,
                <<Digits[c + 1], Digits[mi + 1], Digits[me + 1], "0">>,
                copy_bytes>>>>)

NoopOnly(c, mi, me) ==
    Present(<<<<SCENARIO_COLUMN, RESULT_COLUMN, BYTES_COLUMN>>,
              <<NoopLabels[me], <<Digits[c + 1], Digits[mi + 1], Digits[me + 1]>>,
                <<"8">>>>>>)

\* every throughput given
AllBytes(c) ==
    [mi \in 1..Len(MITIGATIONS) |->
        [me \in 1..Len(METHODS) |-> LeafWith(c, mi, me, <<"8">>, <<"8">>)]]

\* the directories of CPU c that are charted: as benchmarked (no throughput
\* of the empty function); every throughput given; one blank throughput of
\* the copy; the copy missing from the fastcall leaf; the copy missing from
\* the fastcall and syscall leaves
ChartLeaves(c) ==
    {CompleteLeaves(c),
     AllBytes(c),
     [AllBytes(c) EXCEPT ![2][3] = LeafWith(c, 2, 3, <<"8">>, <<>>)],
     [AllBytes(c) EXCEPT ![1][2] = NoopOnly(c, 1, 2)],
     [AllBytes(c) EXCEPT ![1][2] = NoopOnly(c, 1, 2),
                         ![1][3] = NoopOnly(c, 1, 3)]}

\* the class Results
Results(array, cpus) == [array |-> array, cpus |-> cpus]

\* what read_benchmarks returns for the listings of such directories: at
\* least one CPU, the CPUs in scan order
ChartEntries ==
    UNION {{[name |-> PLOTTED_CPUS[c], array |-> read_cpu(l).array] :
               l \in ChartLeaves(c)} : c \in 1..Len(PLOTTED_CPUS)}

ChartResults ==
    {Results([i \in 1..Len(t) |-> t[i].array], NamesOf(t)) :
        t \in ListingsOf(ChartEntries, MaxEntries) \ {<<>>}}

(***************************************************************************)
(* plotting/cpucmp.py.                                                     *)
(***************************************************************************)
\* the keys and the values of PLOT_CPUS, in insertion order
PLOT_CPUS ==
    <<[name |-> "Intel(R)_Core(TM)_i7-4790_CPU_@_3.60GHz",
       label |-> "Intel Core i7-4790"],
      [name |-> "Intel(R)_Xeon(R)_Platinum_8375C_CPU_@_2.90GHz",
       label |-> "Intel Xeon 8375C"]>>

PLOT_MITI == <<"mitigations=auto", "mitigations=off">>

NORM_METHOD == "fastcall"

\* LABEL_THRESHOLD = 0.1
LABEL_THRESHOLD == Rat(1, 10)

\* results.array[results.cpus.index(cpu), :, :, :, 0]
latency_of(results, cpu) ==
    [mi \in 1..Len(MITIGATIONS) |->
        [me \in 1..Len(METHODS) |->
            [s \in 1..Len(SCENARIOS) |->
                results.array[IndexOf(results.cpus, cpu)][mi][me][s][1]]]]

\* lines 51-55: list.index raises ValueError for a CPU that is not in
\* results.cpus
select_cpus(results) ==
    IF \E k \in 1..Len(PLOT_CPUS) : ~HasColumn(results.cpus, PLOT_CPUS[k].name)
    THEN Raise("ValueError")
    ELSE [ok |-> TRUE,
          array |-> [k \in 1..Len(PLOT_CPUS) |->
                        latency_of(results, PLOT_CPUS[k].name)]]

\* lines 91-94: the row of every mitigation of PLOT_MITI
bars_of(results) ==
    [j \in 1..Len(PLOT_MITI) |-> results[IndexOf(MITIGATIONS, PLOT_MITI[j])]]

\* np.amax(bars)
amax(bars) ==
    CHOOSE y \in {bars[j][me] : j \in 1..Len(bars), me \in 1..Len(METHODS)} :
        \A j \in 1..Len(bars), me \in 1..Len(METHODS) : RLe(bars[j][me], y)

\* line 105: the bars that get a label
bar_labels(bars, threshold) ==
    [j \in 1..Len(bars) |->
        [me \in 1..Len(METHODS) |-> RLt(bars[j][me], threshold)]]

\* lines 81-111: the subplot of one CPU.  The heights handed to ax.bar are
\* the rows of bars as they are.
plot_cpu(cpu, results) ==
    [title |-> cpu,
     heights |-> bars_of(results),
     labelled |-> bar_labels(bars_of(results),
                             RMul(LABEL_THRESHOLD, amax(bars_of(results))))]

\* lines 62-78: the figure of scenario s (counted from 1) with one subplot
\* per CPU of PLOT_CPUS; `method` and `mitigation` of lines 63-64 are not
\* used after they are set
cmp_plot_scenario(s, cpus) ==
    [scenario |-> s,
     axes |-> [k \in 1..Len(PLOT_CPUS) |->
                  plot_cpu(PLOT_CPUS[k].label,
                           [mi \in 1..Len(MITIGATIONS) |->
                               [me \in 1..Len(METHODS) |-> cpus[k][mi][me][s]]])]]

VARIABLES
    csv_pc,        \* SpecCsv: "call", "returned" or the exception raised
    csv_file,      \* SpecCsv: the lines of the file read_csv is called on
    csv_values,    \* SpecCsv: read_csv's list `values` after line 105
    csv_results,   \* SpecCsv: what read_csv returned
    pc,            \* main(): the next statement, "done" or "raised"
    tree,          \* the entries of ./results/
    results,       \* main()'s local `results`
    output,        \* ./cycle_stats.csv
    exc,           \* the exception that left main(), or "None"
    method_pc,     \* SpecMethod: "call", "returned" or the exception raised
    method_file,   \* SpecMethod: the leaf file read_method is called on
    method_array,  \* SpecMethod: the array read_method returned
    plot_pc,       \* read_benchmarks(): "scan", "returned" or the exception
    plot_tree,     \* read_benchmarks(): the entries scandir yields, in order
    plot_pos,      \* read_benchmarks(): the entry the loop is at
    plot_results,  \* read_benchmarks(): `results`, then Results.array
    plot_cpus,     \* read_benchmarks(): `cpus`, then Results.cpus
    fork_pc,       \* read_misc(): "scan", "returned" or the exception
    fork_tree,     \* read_misc(): the entries scandir yields, in order
    fork_pos,      \* read_misc(): the entry the loop is at
    fork_results,  \* read_misc(): `results`, then Results.array
    fork_cpus,     \* read_misc(): `cpus`, then Results.cpus
    chart_pc,      \* percpu.plot(): "plot", "done" or the exception
    chart_results, \* percpu.plot(): its argument `results`
    chart_pos,     \* percpu.plot(): the chart the nested loops are at
    chart_figures, \* percpu.plot(): the figures plt.subplots() has made
    chart_dirs,    \* percpu.plot(): the directories under ./plots/
    chart_files,   \* percpu.plot(): the plot files written
    cmp_pc,        \* cpucmp.plot(): "select", "plot", "done" or the exception
    cmp_results,   \* cpucmp.plot(): its argument `results`
    cmp_cpus,      \* cpucmp.plot(): `cpus` after line 55
    cmp_pos,       \* cpucmp.plot(): the scenario the loop of line 58 is at
    cmp_figures    \* cpucmp.plot(): the figures saved, with their bars

csv_vars == <<csv_pc, csv_file, csv_values, csv_results>>

main_vars == <<pc, tree, results, output, exc>>

method_vars == <<method_pc, method_file, method_array>>

plot_vars == <<plot_pc, plot_tree, plot_pos, plot_results, plot_cpus>>

fork_vars == <<fork_pc, fork_tree, fork_pos, fork_results, fork_cpus>>

stats_vars == <<csv_vars, main_vars>>

chart_vars ==
    <<chart_pc, chart_results, chart_pos, chart_figures, chart_dirs,
      chart_files>>

cmp_vars == <<cmp_pc, cmp_results, cmp_cpus, cmp_pos, cmp_figures>>

render_vars == <<chart_vars, cmp_vars>>

plotting_vars == <<method_vars, plot_vars, fork_vars, render_vars>>

vars == <<stats_vars, plotting_vars>>

CsvIdle ==
    /\ csv_pc = "idle"
    /\ csv_file = <<>>
    /\ csv_values = <<>>
    /\ csv_results = <<>>

MainIdle ==
    /\ pc = "idle"
    /\ tree = <<>>
    /\ results = <<>>
    /\ output = NoFile
    /\ exc = "None"

MethodIdle ==
    /\ method_pc = "idle"
    /\ method_file = Absent
    /\ method_array = <<>>

PlotIdle ==
    /\ plot_pc = "idle"
    /\ plot_tree = <<>>
    /\ plot_pos = 1
    /\ plot_results = <<>>
    /\ plot_cpus = <<>>

ForkIdle ==
    /\ fork_pc = "idle"
    /\ fork_tree = <<>>
    /\ fork_pos = 1
    /\ fork_results = <<>>
    /\ fork_cpus = <<>>

StatsIdle == CsvIdle /\ MainIdle

NoResults == Results(<<>>, <<>>)

ChartIdle ==
    /\ chart_pc = "idle"
    /\ chart_results = NoResults
    /\ chart_pos = 1
    /\ chart_figures = 0
    /\ chart_dirs = {}
    /\ chart_files = {}

CmpIdle ==
    /\ cmp_pc = "idle"
    /\ cmp_results = NoResults
    /\ cmp_cpus = <<>>
    /\ cmp_pos = 1
    /\ cmp_figures = <<>>

RenderIdle == ChartIdle /\ CmpIdle

PlottingIdle == MethodIdle /\ PlotIdle /\ ForkIdle /\ RenderIdle

(***************************************************************************)
(* SpecCsv: read_csv on one file.                                          *)
(***************************************************************************)
CsvInit ==
    /\ csv_pc = "call"
    /\ csv_file \in CsvFiles
    /\ csv_values = <<>>
    /\ csv_results = <<>>
    /\ MainIdle
    /\ PlottingIdle

\* the state after read_csv_run ended with r
ReadCsvEnds(r) ==
    /\ csv_pc' = IF r.ok THEN "returned" ELSE r.exc
    /\ csv_values' = r.values
    /\ csv_results' = IF r.ok THEN r.results ELSE <<>>

\* one call of read_csv(path): it returns its rows or raises
ReadCsv ==
    /\ csv_pc = "call"
    /\ ReadCsvEnds(read_csv_run(csv_file))
    /\ UNCHANGED <<csv_file, main_vars, plotting_vars>>

CsvNext == ReadCsv

SpecCsv == CsvInit /\ [][CsvNext]_vars

(***************************************************************************)
(* Spec: one run of cycle_stats.main().                                    *)
(***************************************************************************)
Init ==
    /\ pc = "read_cpus"
    /\ tree \in Trees
    /\ results = <<>>
    /\ output \in {NoFile, OldFile}
    /\ exc = "None"
    /\ CsvIdle
    /\ PlottingIdle

\* the state after read_cpus() ended with r: main() goes on, or the
\* exception leaves it
ReadCpusEnds(r, next) ==
    /\ pc' = IF r.ok THEN next ELSE "raised"
    /\ results' = IF r.ok THEN r.results ELSE <<>>
    /\ exc' = IF r.ok THEN "None" ELSE r.exc

\* main() with read_cpus() called inside the with block: the file is
\* opened, and so created or truncated, before the inputs are read
MainReadCpusAfterOpen ==
    /\ pc = "read_cpus"
    /\ ReadCpusEnds(read_cpus(tree), "writerow")
    /\ output' = [exists |-> TRUE, rows |-> <<>>]
    /\ UNCHANGED <<tree, csv_vars, plotting_vars>>

\* line 33: results = read_cpus(); an exception leaves main()
MainReadCpus ==
    /\ pc = "read_cpus"
    /\ ReadCpusEnds(read_cpus(tree), "open")
    /\ UNCHANGED <<tree, output, csv_vars, plotting_vars>>

\* line 34: open(OUTPUT_FILE, "w") creates the file or truncates it
MainOpen ==
    /\ pc = "open"
    /\ output' = [exists |-> TRUE, rows |-> <<>>]
    /\ pc' = "writerow"
    /\ UNCHANGED <<tree, results, exc, csv_vars, plotting_vars>>

\* line 36: writer.writerow(OUTPUT_HEADER)
MainWriteHeader ==
    /\ pc = "writerow"
    /\ output' = [output EXCEPT !.rows = Append(@, OUTPUT_HEADER)]
    /\ pc' = "writerows"
    /\ UNCHANGED <<tree, results, exc, csv_vars, plotting_vars>>

\* line 37: writer.writerows(results), then the file is closed.  The writer
\* turns every field into text and quotes it where needed, one field of the
\* row per field of the line; the text itself is not modelled.
MainWriteRows ==
    /\ pc = "writerows"
    /\ output' = [output EXCEPT !.rows = @ \o results]
    /\ pc' = "done"
    /\ UNCHANGED <<tree, results, exc, csv_vars, plotting_vars>>

Next == MainReadCpus \/ MainOpen \/ MainWriteHeader \/ MainWriteRows

Spec == Init /\ [][Next]_vars

(***************************************************************************)
(* SpecEmpty: one run of cycle_stats.main() over files with columns that   *)
(* have no sample left.                                                    *)
(***************************************************************************)
EmptyInit ==
    /\ pc = "read_cpus"
    /\ tree \in EmptyTrees
    /\ results = <<>>
    /\ output \in {NoFile, OldFile}
    /\ exc = "None"
    /\ CsvIdle
    /\ PlottingIdle

SpecEmpty == EmptyInit /\ [][Next]_vars

(***************************************************************************)
(* SpecMethod: read_method on one leaf file.                               *)
(***************************************************************************)
MethodInit ==
    /\ method_pc = "call"
    /\ method_file \in MethodFiles(MaxMethodRows)
    /\ method_array = <<>>
    /\ PlotIdle
    /\ ForkIdle
    /\ StatsIdle
    /\ RenderIdle

\* the state after read_method ended with r
ReadMethodEnds(r) ==
    /\ method_pc' = IF r.ok THEN "returned" ELSE r.exc
    /\ method_array' = IF r.ok THEN r.array ELSE <<>>

ReadMethod ==
    /\ method_pc = "call"
    /\ ReadMethodEnds(read_method(method_file))
    /\ UNCHANGED <<method_file, plot_vars, fork_vars, stats_vars, render_vars>>

MethodNext == ReadMethod

SpecMethod == MethodInit /\ [][MethodNext]_vars

(***************************************************************************)
(* SpecPlot: one call of utils.read_benchmarks().                          *)
(***************************************************************************)
PlotInit ==
    /\ plot_pc = "scan"
    /\ plot_tree \in PlotTrees
    /\ plot_pos = 1
    /\ plot_results = <<>>
    /\ plot_cpus = <<>>
    /\ MethodIdle
    /\ ForkIdle
    /\ StatsIdle
    /\ RenderIdle

InPlottedCpus(name) == \E c \in 1..Len(PLOTTED_CPUS) : PLOTTED_CPUS[c] = name

\* lines 68-69 with what read_cpu gave: an exception leaves the loop and
\* read_benchmarks
AppendCpu(entry, r) ==
    /\ plot_pc' = IF r.ok THEN "scan" ELSE r.exc
    /\ plot_pos' = IF r.ok THEN plot_pos + 1 ELSE plot_pos
    /\ plot_results' = IF r.ok THEN Append(plot_results, r.array)
                       ELSE plot_results
    /\ plot_cpus' = IF r.ok THEN Append(plot_cpus, entry.name) ELSE plot_cpus

\* lines 62-69: one turn of the loop over the entries of results/
ReadBenchmarksEntry ==
    /\ plot_pc = "scan"
    /\ plot_pos <= Len(plot_tree)
    /\ IF ~plot_tree[plot_pos].is_dir \/ ~InPlottedCpus(plot_tree[plot_pos].name)
       THEN /\ plot_pos' = plot_pos + 1
            /\ UNCHANGED <<plot_pc, plot_results, plot_cpus>>
       ELSE AppendCpu(plot_tree[plot_pos],
                      read_cpu(plot_tree[plot_pos].leaves))
    /\ UNCHANGED <<plot_tree, method_vars, fork_vars, stats_vars, render_vars>>

\* line 70: np.stack raises ValueError on an empty list
ReadBenchmarksReturn ==
    /\ plot_pc = "scan"
    /\ plot_pos > Len(plot_tree)
    /\ plot_pc' = IF plot_results = <<>> THEN "ValueError" ELSE "returned"
    /\ UNCHANGED <<plot_tree, plot_pos, plot_results, plot_cpus,
                   method_vars, fork_vars, stats_vars, render_vars>>

PlotNext == ReadBenchmarksEntry \/ ReadBenchmarksReturn

SpecPlot == PlotInit /\ [][PlotNext]_vars

(***************************************************************************)
(* SpecFork: one call of fork.read_misc().                                 *)
(***************************************************************************)
ForkInit ==
    /\ fork_pc = "scan"
    /\ fork_tree \in ForkTrees
    /\ fork_pos = 1
    /\ fork_results = <<>>
    /\ fork_cpus = <<>>
    /\ MethodIdle
    /\ PlotIdle
    /\ StatsIdle
    /\ RenderIdle

\* lines 69-74 with what read_cpu gave: an exception leaves read_misc, the
\* sentinel skips the entry
AppendOrSkip(entry, r) ==
    /\ fork_pc' = IF r.ok THEN "scan" ELSE r.exc
    /\ fork_pos' = IF r.ok THEN fork_pos + 1 ELSE fork_pos
    /\ fork_results' = IF r.ok /\ ~r.none THEN Append(fork_results, r.array)
                       ELSE fork_results
    /\ fork_cpus' = IF r.ok /\ ~r.none THEN Append(fork_cpus, entry.name)
                    ELSE fork_cpus

\* lines 65-74: one turn of the loop over the entries of results/
ReadMiscEntry ==
    /\ fork_pc = "scan"
    /\ fork_pos <= Len(fork_tree)
    /\ IF ~fork_tree[fork_pos].is_dir
       THEN /\ fork_pos' = fork_pos + 1
            /\ UNCHANGED <<fork_pc, fork_results, fork_cpus>>
       ELSE AppendOrSkip(fork_tree[fork_pos],
                         fork_read_cpu(fork_tree[fork_pos].files))
    /\ UNCHANGED <<fork_tree, method_vars, plot_vars, stats_vars, render_vars>>

\* line 75: np.stack raises ValueError on an empty list
ReadMiscReturn ==
    /\ fork_pc = "scan"
    /\ fork_pos > Len(fork_tree)
    /\ fork_pc' = IF fork_results = <<>> THEN "ValueError" ELSE "returned"
    /\ UNCHANGED <<fork_tree, fork_pos, fork_results, fork_cpus,
                   method_vars, plot_vars, stats_vars, render_vars>>

ForkNext == ReadMiscEntry \/ ReadMiscReturn

SpecFork == ForkInit /\ [][ForkNext]_vars

(***************************************************************************)
(* SpecCharts: one call of percpu.plot(results).  The nested loops of      *)
(* plot, plot_cpu and plot_evaluation go through the charts in the order   *)
(* CPU, evaluation, scenario; chart_pos counts them from 1.                *)
(***************************************************************************)
ChartsInit ==
    /\ chart_pc = "plot"
    /\ chart_results \in ChartResults
    /\ chart_pos = 1
    /\ chart_figures = 0
    /\ chart_dirs = {}
    /\ chart_files = {}
    /\ CmpIdle
    /\ MethodIdle
    /\ PlotIdle
    /\ ForkIdle
    /\ StatsIdle

ChartsPerCpu == Len(EVALUATIONS) * Len(SCENARIOS)

\* the CPU, evaluation and scenario of chart n, each counted from 1
ChartCpu(n) == ((n - 1) \div ChartsPerCpu) + 1

ChartEvaluation(n) == (((n - 1) % ChartsPerCpu) \div Len(SCENARIOS)) + 1

ChartScenario(n) == ((n - 1) % Len(SCENARIOS)) + 1

\* the slice plot_scenario gets for chart n
ChartSlice(n) ==
    chart_slice(chart_results.array[ChartCpu(n)],
                EVALUATIONS[ChartEvaluation(n)], ChartScenario(n))

\* the directory made for chart n (line 58) and its plot file (line 59):
\* the file name is the title of the scenario with "_" for " " and PLOT_EXT
ChartDir(n) ==
    <<chart_results.cpus[ChartCpu(n)], EVALUATIONS[ChartEvaluation(n)]>>

ChartFile(n) == [dir |-> ChartDir(n), scenario |-> ChartScenario(n)]

\* plot_scenario ended in the given way
PlotScenarioEnds(end) ==
    /\ chart_pc' = IF end \in {"skipped", "saved"} THEN "plot" ELSE end
    /\ chart_pos' = IF end \in {"skipped", "saved"} THEN chart_pos + 1
                    ELSE chart_pos
    /\ chart_figures' = IF end = "skipped" THEN chart_figures
                        ELSE chart_figures + 1
    /\ chart_files' = IF end = "saved"
                      THEN chart_files \cup {ChartFile(chart_pos)}
                      ELSE chart_files

\* lines 58-60 for one scenario: makedirs, then the function of the
\* evaluation and plot_scenario
PlotChart ==
    /\ chart_pc = "plot"
    /\ chart_pos <= Len(chart_results.cpus) * ChartsPerCpu
    /\ chart_dirs' = chart_dirs \cup {ChartDir(chart_pos)}
    /\ \E end \in plot_scenario(ChartSlice(chart_pos)) : PlotScenarioEnds(end)
    /\ UNCHANGED <<chart_results, cmp_vars, method_vars, plot_vars, fork_vars,
                   stats_vars>>

\* the loops of lines 43, 50 and 57 are through
PlotReturn ==
    /\ chart_pc = "plot"
    /\ chart_pos > Len(chart_results.cpus) * ChartsPerCpu
    /\ chart_pc' = "done"
    /\ UNCHANGED <<chart_results, chart_pos, chart_figures, chart_dirs,
                   chart_files, cmp_vars, method_vars, plot_vars, fork_vars,
                   stats_vars>>

ChartsNext == PlotChart \/ PlotReturn

SpecCharts == ChartsInit /\ [][ChartsNext]_vars

(***************************************************************************)
(* SpecCmp: one call of cpucmp.plot(results).                              *)
(***************************************************************************)
CmpInit ==
    /\ cmp_pc = "select"
    /\ cmp_results \in ChartResults
    /\ cmp_cpus = <<>>
    /\ cmp_pos = 1
    /\ cmp_figures = <<>>
    /\ ChartIdle
    /\ MethodIdle
    /\ PlotIdle
    /\ ForkIdle
    /\ StatsIdle

\* lines 51-55 ended with r
SelectEnds(r) ==
    /\ cmp_pc' = IF r.ok THEN "plot" ELSE r.exc
    /\ cmp_cpus' = IF r.ok THEN r.array ELSE <<>>

\* lines 51-57: the latencies of the CPUs of PLOT_CPUS
CmpSelect ==
    /\ cmp_pc = "select"
    /\ SelectEnds(select_cpus(cmp_results))
    /\ UNCHANGED <<cmp_results, cmp_pos, cmp_figures, chart_vars,
                   method_vars, plot_vars, fork_vars, stats_vars>>

\* lines 58-59: the figure of one scenario is drawn and saved
CmpPlotScenario ==
    /\ cmp_pc = "plot"
    /\ cmp_pos <= Len(SCENARIOS)
    /\ cmp_figures' = Append(cmp_figures, cmp_plot_scenario(cmp_pos, cmp_cpus))
    /\ cmp_pos' = cmp_pos + 1
    /\ UNCHANGED <<cmp_pc, cmp_results, cmp_cpus, chart_vars, method_vars,
                   plot_vars, fork_vars, stats_vars>>

\* the loop of line 58 is through
CmpReturn ==
    /\ cmp_pc = "plot"
    /\ cmp_pos > Len(SCENARIOS)
    /\ cmp_pc' = "done"
    /\ UNCHANGED <<cmp_results, cmp_cpus, cmp_pos, cmp_figures, chart_vars,
                   method_vars, plot_vars, fork_vars, stats_vars>>

CmpNext == CmpSelect \/ CmpPlotScenario \/ CmpReturn

SpecCmp == CmpInit /\ [][CmpNext]_vars

(***************************************************************************)
(* Properties of read_csv (SpecCsv).  A row of csv_results is              *)
(* <<name, adjusted, mean, median, p1, p25, p50, p75, p99, std, iqr, min,  *)
(* max>>.                                                                  *)
(***************************************************************************)
CsvHeader == Head(csv_file)

CsvRows == Tail(csv_file)

\* the parsed value of every field of every data row
CsvParsed ==
    UNION {{int(CsvRows[r][i]).val : i \in 1..Len(CsvRows[r])} :
              r \in 1..Len(CsvRows)}

\* the parsed values of column k in file order
CsvColumn(k) ==
    LET rows == SelectSeq(CsvRows, LAMBDA r : Len(r) >= k)
    IN  [j \in 1..Len(rows) |-> int(rows[j][k]).val]

\* the samples read_csv kept in its list `values`
CsvKept ==
    UNION {{csv_values[k][j] : j \in 1..Len(csv_values[k])} :
              k \in 1..Len(csv_values)}

\* C1 as stated: after read_csv has filtered a file, no sample v with
\* |v| > OVERFLOW_THRESHOLD is among the samples of any column.
C1_NoSampleBeyondThresholdInMagnitude ==
    \A v \in CsvKept : Abs(v) <= OVERFLOW_THRESHOLD

\* C1 as amended: after read_csv has filtered a file, no sample v with
\* v > OVERFLOW_THRESHOLD is among the samples of any column, and the
\* maximum reported for every column is at most the threshold.
C1_NoSampleAboveThreshold ==
    /\ \A v \in CsvKept : v <= OVERFLOW_THRESHOLD
    /\ \A k \in 1..Len(csv_results) :
           ~csv_results[k][2] =>
               RLe(csv_results[k][13], <<OVERFLOW_THRESHOLD, 1>>)

\* read_csv returned for a file that holds a sample above the threshold
C1_Witness ==
    /\ csv_pc = "returned"
    /\ \E v \in CsvParsed : v > OVERFLOW_THRESHOLD

\* C8: if every sample of the file is <= OVERFLOW_THRESHOLD (and no row is
\* longer than the header), every column keeps all its parsed values in
\* file order, and the raw mean of the column is the mean of all of them.
C8_FilterIsIdentityBelowThreshold ==
    (/\ csv_pc \in {"returned", "ValueError"}
     /\ \A v \in CsvParsed : v <= OVERFLOW_THRESHOLD)
    => /\ \A k \in 1..Len(CsvHeader) : csv_values[k] = CsvColumn(k)
       /\ csv_pc = "returned" =>
              \A k \in 1..Len(CsvHeader) :
                  csv_results[k][3] =
                      Rat(Sum(CsvColumn(k)), Len(CsvColumn(k)))

\* read_csv returned for a file whose samples include the threshold itself
\* and a negative sample of larger magnitude, and none above the threshold
C8_Witness ==
    /\ csv_pc = "returned"
    /\ \A v \in CsvParsed : v <= OVERFLOW_THRESHOLD
    /\ OVERFLOW_THRESHOLD \in CsvKept
    /\ \E v \in CsvKept : v < -OVERFLOW_THRESHOLD

\* the column named noop and the median of its filtered samples
CsvNoopColumn == CHOOSE k \in 1..Len(CsvHeader) : CsvHeader[k] = NOOP_COL

CsvNoopMedian == median(Sorted(csv_values[CsvNoopColumn]), 1)

\* C2: when the file has a noop column with filtered median m, the adjusted
\* row of every column X (noop included) carries X's name, and its mean,
\* median, p1, p25, p50, p75, p99, min and max are the raw ones minus m,
\* its std and iqr the raw ones.
C2_AdjustedIsRawShiftedByNoopMedian ==
    (csv_pc = "returned" /\ \E k \in 1..Len(CsvHeader) : CsvHeader[k] = NOOP_COL)
    => LET n == Len(CsvHeader)
           m == CsvNoopMedian
       IN  /\ Len(csv_results) = 2 * n
           /\ \A k \in 1..n :
                  LET raw == csv_results[k]
                      adj == csv_results[n + k]
                  IN  /\ raw[1] = CsvHeader[k] /\ raw[2] = FALSE
                      /\ adj[1] = CsvHeader[k] /\ adj[2] = TRUE
                      /\ \A i \in {3, 4, 5, 6, 7, 8, 9, 12, 13} :
                             adj[i] = RSub(raw[i], m)
                      /\ adj[10] = raw[10]
                      /\ adj[11] = raw[11]

\* read_csv returned adjusted rows for a file whose noop median differs
\* from its noop mean and is not zero
C2_Witness ==
    /\ csv_pc = "returned"
    /\ Len(CsvHeader) = 2
    /\ \E k \in 1..2 : CsvHeader[k] = NOOP_COL
    /\ csv_results[CsvNoopColumn][3] # csv_results[CsvNoopColumn][4]
    /\ csv_results[CsvNoopColumn][4] # <<0, 1>>
    /\ Len(csv_results) = 4

\* C6: every row read_csv returns has iqr = p75 - p25, p50 = median and
\* min <= p1 <= p25 <= p50 <= median <= p75 <= p99 <= max; for a raw row
\* min and max are the least and the greatest filtered sample.
C6_PercentilesOrdered ==
    csv_pc = "returned"
    => \A k \in 1..Len(csv_results) :
           LET r == csv_results[k]
           IN  /\ r[11] = RSub(r[8], r[6])
               /\ r[7] = r[4]
               /\ RLe(r[12], r[5]) /\ RLe(r[5], r[6]) /\ RLe(r[6], r[7])
               /\ RLe(r[7], r[4]) /\ RLe(r[4], r[8]) /\ RLe(r[8], r[9])
               /\ RLe(r[9], r[13])
               /\ ~r[2] =>
                      LET S == {csv_values[k][j] : j \in 1..Len(csv_values[k])}
                      IN  /\ r[12][2] = 1 /\ r[12][1] \in S
                          /\ r[13][2] = 1 /\ r[13][1] \in S
                          /\ \A x \in S : r[12][1] <= x /\ x <= r[13][1]

\* read_csv returned a row over three or more samples with
\* min < p1 < p25 < p75
C6_Witness ==
    /\ csv_pc = "returned"
    /\ \E k \in 1..Len(CsvHeader) :
           /\ Len(csv_values[k]) >= 3
           /\ RLt(csv_results[k][12], csv_results[k][5])
           /\ RLt(csv_results[k][5], csv_results[k][6])
           /\ RLt(csv_results[k][6], csv_results[k][8])

(***************************************************************************)
(* Properties of main() (Spec).                                            *)
(***************************************************************************)
\* where the scan finds a CSV file: <<i, j, k>> for entry k of mitigation
\* directory j of CPU directory i with a name INPUT_RE matches
Discovered ==
    UNION {UNION {{<<i, j, k>> :
                      k \in {l \in 1..Len(tree[i].entries[j].entries) :
                                /\ tree[i].entries[j].entries[l].is_file
                                /\ INPUT_RE_match(
                                       tree[i].entries[j].entries[l].name).matched}} :
                     j \in {l \in 1..Len(tree[i].entries) :
                               tree[i].entries[l].is_dir}} :
              i \in {l \in 1..Len(tree) : tree[l].is_dir}}

FileAt(d) == tree[d[1]].entries[d[2]].entries[d[3]]

\* the columns of a file, twice if one of them is named noop
RowsOf(d) ==
    LET header == Head(FileAt(d).lines)
    IN  Len(header)
        * (IF \E k \in 1..Len(header) : header[k] = NOOP_COL THEN 2 ELSE 1)

RECURSIVE RowsOfAll(_)
RowsOfAll(S) ==
    IF S = {} THEN 0
    ELSE LET d == CHOOSE e \in S : TRUE
         IN  RowsOf(d) + RowsOfAll(S \ {d})

\* C3: the data rows written to cycle_stats.csv number the sum, over the
\* files found, of the file's columns, counted twice if the file has a noop
\* column; the header row comes first.
C3_RowCount ==
    pc = "done"
    => /\ Len(output.rows) = 1 + RowsOfAll(Discovered)
       /\ output.rows[1] = OUTPUT_HEADER

\* a finished run over two files, one with the columns noop and
\* syscall_sys_ni_syscall (4 rows) and one without a noop column (1 row)
C3_Witness ==
    /\ pc = "done"
    /\ Cardinality(Discovered) = 2
    /\ \E d \in Discovered : RowsOf(d) = 4
    /\ \E d \in Discovered : RowsOf(d) = 1
    /\ Len(output.rows) = 6

\* a file the scan finds holds a field that is no integer
HasMalformedField ==
    \E d \in Discovered :
        \E r \in 2..Len(FileAt(d).lines) :
            \E i \in 1..Len(FileAt(d).lines[r]) :
                ~int(FileAt(d).lines[r][i]).ok

\* C7: when a file the scan finds holds a field that is no integer, main()
\* never gets past read_cpus: the run ends with the exception raised, and
\* cycle_stats.csv stays as it was, absent or with its old content.
C7_MalformedFieldLeavesNoOutput ==
    HasMalformedField
    => /\ pc \in {"read_cpus", "raised"}
       /\ output \in {NoFile, OldFile}
       /\ pc = "raised" => exc = "ValueError" /\ results = <<>>

\* a run that raised on a malformed file found after a well-formed one,
\* with the old cycle_stats.csv still in place
C7_Witness ==
    /\ pc = "raised"
    /\ HasMalformedField
    /\ output = OldFile
    /\ \E d \in Discovered : read_csv(FileAt(d).lines).ok

\* the least triple of S in scan order
FirstOf(S) ==
    CHOOSE d \in S :
        \A e \in S :
            \/ d[1] < e[1]
            \/ d[1] = e[1] /\ d[2] < e[2]
            \/ d[1] = e[1] /\ d[2] = e[2] /\ d[3] <= e[3]

\* the rows of the files found, in scan order, each behind the names of its
\* CPU directory, its mitigation directory and its kernel
RECURSIVE RowsBehindNames(_)
RowsBehindNames(S) ==
    IF S = {} THEN <<>>
    ELSE LET d == FirstOf(S)
             rows == read_csv(FileAt(d).lines).results
             names == <<tree[d[1]].name, tree[d[1]].entries[d[2]].name,
                        INPUT_RE_match(FileAt(d).name).group1>>
         IN  [k \in 1..Len(rows) |-> names \o rows[k]]
             \o RowsBehindNames(S \ {d})

\* C10: every data row of cycle_stats.csv has the 16 fields of the header,
\* in its order: the CPU directory, the mitigation directory, the kernel
\* captured from the file name, then the 13 fields of a row of read_csv
\* (the benchmark column, the adjusted flag and the 11 statistics).
C10_RowLayout ==
    pc = "done"
    => /\ Tail(output.rows) = RowsBehindNames(Discovered)
       /\ \A r \in 2..Len(output.rows) :
              /\ Len(output.rows[r]) = Len(OUTPUT_HEADER)
              /\ Len(OUTPUT_HEADER) = 16
              /\ output.rows[r][3] \in
                     {<<"f", "a", "s", "t", "c", "a", "l", "l">>,
                      <<"s", "t", "o", "c", "k">>}
              /\ output.rows[r][5] \in BOOLEAN

\* a finished run that wrote rows of two CPUs
C10_Witness ==
    /\ pc = "done"
    /\ \E r, q \in 2..Len(output.rows) : output.rows[r][1] # output.rows[q][1]

(***************************************************************************)
(* Properties of find_scenario and read_method (SpecMethod).               *)
(***************************************************************************)
\* the file has a header with the label column
MethodHasLabels ==
    /\ method_file.exists
    /\ method_file.lines # <<>>
    /\ HasColumn(Head(method_file.lines), SCENARIO_COLUMN)

MethodLabelOf(row) ==
    row[IndexOf(Head(method_file.lines), SCENARIO_COLUMN)]

\* the labels of the rows of the file
MethodLabels ==
    IF MethodHasLabels
    THEN {MethodLabelOf(Tail(method_file.lines)[r]) :
             r \in 1..(Len(method_file.lines) - 1)}
    ELSE {}

\* an identifying substring of scenario i (counted from 1) occurs in label
Matches(label, i) == \E ident \in SCENARIOS[i].idents : Contains(label, ident)

Related(row) == \E i \in 1..Len(SCENARIOS) : Matches(MethodLabelOf(row), i)

\* the file without the rows of an unrelated label
WithoutUnrelated ==
    Present(<<Head(method_file.lines)>>
            \o SelectSeq(Tail(method_file.lines), Related))

\* C5: find_scenario returns the index of the first scenario, in table
\* order, one of whose substrings occurs in the label, and None when none
\* does; a label containing "syscall_sys_ni_syscall" resolves to index 0, one
\* containing "array/64" and no Empty-Function substring to index 1; and the
\* array read_method returns is the one it returns for the file without the
\* rows of an unrelated label.
C5_FirstMatchWinsElseDropped ==
    /\ \A label \in MethodLabels :
          /\ find_scenario(label).found
                <=> \E i \in 1..Len(SCENARIOS) : Matches(label, i)
          /\ find_scenario(label).found
                => /\ Matches(label, find_scenario(label).index + 1)
                   /\ \A j \in 1..find_scenario(label).index :
                         ~Matches(label, j)
          /\ Contains(label, <<"s", "y", "s", "c", "a", "l", "l", "_", "s",
                               "y", "s", "_", "n", "i", "_", "s", "y", "s",
                               "c", "a", "l", "l">>)
                => find_scenario(label) = [found |-> TRUE, index |-> 0]
          /\ Contains(label, <<"a", "r", "r", "a", "y", "/", "6", "4">>) /\ ~Matches(label, 1)
                => find_scenario(label) = [found |-> TRUE, index |-> 1]
    /\ method_pc = "returned"
          => method_array = read_method(WithoutUnrelated).array

\* read_method returned for a file with a row of an unrelated label and a
\* row whose label has substrings of both scenarios
C5_Witness ==
    /\ method_pc = "returned"
    /\ method_array # zeros
    /\ \E unrelated, both \in MethodLabels :
          /\ ~find_scenario(unrelated).found
          /\ Matches(both, 1)
          /\ Matches(both, 2)

\* the rows of the file, the header left out
MethodRowsRead == Tail(method_file.lines)

\* row r is of scenario i (counted from 1): i is the first scenario, in
\* table order, one of whose substrings occurs in the label of the row
Resolves(r, i) ==
    /\ Matches(MethodLabelOf(MethodRowsRead[r]), i)
    /\ \A j \in 1..(i - 1) : ~Matches(MethodLabelOf(MethodRowsRead[r]), j)

RowsResolving(i) == {r \in 1..Len(MethodRowsRead) : Resolves(r, i)}

LastRowOf(i) == CHOOSE r \in RowsResolving(i) : \A q \in RowsResolving(i) : q <= r

\* the numbers written in the fields of the files
FieldValue(field) ==
    CASE field = <<"3">> -> <<3, 1>>
      [] field = <<"4", ".", "5">> -> <<9, 2>>
      [] field = <<"8">> -> <<8, 1>>
      [] field = <<>> -> nan

\* the field of row r under a column of the header
FieldOf(r, column) ==
    MethodRowsRead[r][IndexOf(Head(method_file.lines), column)]

\* the (mitigation x method) slice every cell of which is this value
UniformSlice(value) ==
    [mi \in 1..Len(MITIGATIONS) |-> [me \in 1..Len(METHODS) |-> value]]

\* C15: when read_method returns, array[i] is the (latency, throughput or
\* NaN for a blank field) pair of the last row, in file order, that resolves
\* to scenario i, and (0, 0) when no row does; a scenario without a row is
\* therefore zero, not NaN, under every evaluation, and plot_scenario does
\* not skip the chart of a slice made of it.
C15_LastRowWinsElseZero ==
    method_pc = "returned"
        => \A i \in 1..Len(SCENARIOS) :
              IF RowsResolving(i) = {}
              THEN /\ method_array[i] = <<<<0, 1>>, <<0, 1>>>>
                   /\ \A e \in 1..Len(EVALUATIONS) :
                         /\ ~isnan(evaluate(EVALUATIONS[e], method_array[i]))
                         /\ "skipped" \notin
                                plot_scenario(UniformSlice(
                                    evaluate(EVALUATIONS[e], method_array[i])))
              ELSE method_array[i]
                      = <<FieldValue(FieldOf(LastRowOf(i), RESULT_COLUMN)),
                          FieldValue(FieldOf(LastRowOf(i), BYTES_COLUMN))>>

\* two rows of the empty function with different values, the second one
\* stored, and no row of the 64-byte copy
C15_Witness ==
    /\ method_pc = "returned"
    /\ RowsResolving(1) = {1, 2}
    /\ RowsResolving(2) = {}
    /\ FieldOf(1, RESULT_COLUMN) # FieldOf(2, RESULT_COLUMN)
    /\ FieldOf(1, BYTES_COLUMN) # FieldOf(2, BYTES_COLUMN)
    /\ method_array[1] # <<<<0, 1>>, <<0, 1>>>>
    /\ method_array[2] = <<<<0, 1>>, <<0, 1>>>>

(***************************************************************************)
(* Properties of utils.read_benchmarks (SpecPlot).                         *)
(***************************************************************************)
\* the entry is the directory of a CPU that is plotted
PlotListed(entry) == entry.is_dir /\ InPlottedCpus(entry.name)

\* every (mitigation, method) leaf of the entry exists
PlotComplete(entry) ==
    \A mi \in 1..Len(MITIGATIONS), me \in 1..Len(METHODS) :
        entry.leaves[mi][me].exists

PlotListedComplete(entry) == PlotListed(entry) /\ PlotComplete(entry)

\* C4: when a leaf of a plotted CPU is absent read_benchmarks does not fail:
\* it returns, and its result holds the plotted CPUs all of whose leaves
\* exist, and no other.
C4_MissingLeafExcludesCpu ==
    plot_pc # "scan"
        => /\ plot_pc # "FileNotFoundError"
           /\ plot_pc = "returned"
                 => /\ plot_cpus
                          = NamesOf(SelectSeq(plot_tree, PlotListedComplete))
                    /\ Len(plot_results) = Len(plot_cpus)

\* the position of a plotted CPU in PLOTTED_CPUS
PlottedIndex(name) ==
    CHOOSE c \in 1..Len(PLOTTED_CPUS) : PLOTTED_CPUS[c] = name

\* what the files of plotted CPU c hold, every value at the place the static
\* tables give it: [mitigation][method][scenario] = <<latency, throughput>>.
\* The empty function has no throughput, the 64-byte copy moves 8 bytes/s.
ExpectedArray(c) ==
    [mi \in 1..Len(MITIGATIONS) |->
        [me \in 1..Len(METHODS) |->
            <<<<<<100 * c + 10 * mi + me, 1>>, nan>>,
              <<<<1000 * c + 100 * mi + 10 * me, 1>>, <<8, 1>>>>>>]]

\* C14: the indices of the arrays are fixed by the static tables: whatever
\* the order results/ is listed in, the array of a CPU has the data of
\* mitigation MITIGATIONS[mi] and method METHODS[me] at [mi][me]; only the
\* CPU axis follows the order of the scan, results[i] is the array of the
\* CPU named cpus[i], and the two lists have the same length.
C14_IndicesFollowTables ==
    /\ Len(plot_results) = Len(plot_cpus)
    /\ plot_cpus = NamesOf(SelectSeq(SubSeq(plot_tree, 1, plot_pos - 1),
                                     PlotListed))
    /\ \A i \in 1..Len(plot_cpus) :
          plot_results[i] = ExpectedArray(PlottedIndex(plot_cpus[i]))

\* two CPUs returned in an order that is not the order of PLOTTED_CPUS
C14_Witness ==
    /\ plot_pc = "returned"
    /\ Len(plot_cpus) = 2
    /\ plot_cpus[1] = PLOTTED_CPUS[3]
    /\ plot_cpus[2] = PLOTTED_CPUS[1]
    /\ plot_results[1] # plot_results[2]

(***************************************************************************)
(* Properties of fork.read_misc (SpecFork).                                *)
(***************************************************************************)
\* the entry is a directory with every (mitigation, kernel) file
ForkComplete(entry) ==
    /\ entry.is_dir
    /\ \A mi \in 1..Len(fork_MITIGATIONS), k \in 1..Len(KERNELS) :
          entry.files[mi][k].exists

\* the entries the loop of read_misc has gone through
ForkScanned == SubSeq(fork_tree, 1, fork_pos - 1)

\* the array has the shape (MITIGATIONS, KERNELS, MEASURES), and the cell
\* of every file is what read_kernel makes of the file
ForkArrayOf(array, entry) ==
    /\ DOMAIN array = 1..Len(fork_MITIGATIONS)
    /\ \A mi \in 1..Len(fork_MITIGATIONS) :
          /\ DOMAIN array[mi] = 1..Len(KERNELS)
          /\ \A k \in 1..Len(KERNELS) :
                /\ DOMAIN array[mi][k] = 1..Len(MEASURES)
                /\ array[mi][k] = read_kernel(entry.files[mi][k]).array

\* C9: the CPUs of read_misc are the directories scanned so far of which
\* every (mitigation, kernel) file exists, in scan order, each with an
\* array of the full shape; a directory with a missing file is never among
\* them.
C9_OnlyCompleteCpus ==
    /\ fork_cpus = NamesOf(SelectSeq(ForkScanned, ForkComplete))
    /\ Len(fork_results) = Len(fork_cpus)
    /\ \A i \in 1..Len(fork_results) :
          ForkArrayOf(fork_results[i],
                      SelectSeq(ForkScanned, ForkComplete)[i])

\* read_misc returned after a directory with some, but not all, of its
\* files, and a complete one after it
C9_Witness ==
    /\ fork_pc = "returned"
    /\ \E i, j \in 1..Len(fork_tree) :
          /\ i < j
          /\ fork_tree[i].is_dir
          /\ ~ForkComplete(fork_tree[i])
          /\ fork_tree[i].files # NoFiles
          /\ ForkComplete(fork_tree[j])
          /\ fork_cpus = <<fork_tree[j].name>>

(***************************************************************************)
(* Properties of percpu.plot (SpecCharts).                                 *)
(***************************************************************************)
ChartsTotal == Len(chart_results.cpus) * ChartsPerCpu

\* the slice of chart n holds a not-a-number value
ChartHasNan(n) ==
    \E mi \in 1..Len(MITIGATIONS), me \in 1..Len(METHODS) :
        ChartSlice(n)[mi][me] = <<0, 0>>

\* an exception has left percpu.plot
ChartRaised == chart_pc \notin {"plot", "done"}

\* C11: a chart whose slice holds a not-a-number value is skipped: no plot
\* file is written for it, no figure is made for it (the figures made are
\* those of the charts without such a value), and no exception is raised at
\* it.
C11_NanChartSkipped ==
    /\ \A n \in 1..ChartsTotal :
          ChartHasNan(n) => ChartFile(n) \notin chart_files
    /\ chart_figures
          = Cardinality({n \in 1..(chart_pos - 1) : ~ChartHasNan(n)})
            + (IF ChartRaised THEN 1 ELSE 0)
    /\ ChartRaised => ~ChartHasNan(chart_pos)

\* percpu.plot went through a bytes-per-second chart with a blank
\* throughput in its slice, and saved another chart
C11_Witness ==
    /\ chart_pc = "done"
    /\ chart_files # {}
    /\ \E n \in 1..ChartsTotal :
          /\ EVALUATIONS[ChartEvaluation(n)] = "throughput_bytes"
          /\ ChartHasNan(n)

(***************************************************************************)
(* Properties of cpucmp.plot (SpecCmp).                                    *)
(***************************************************************************)
\* the latency read for CPU k of PLOT_CPUS, mitigation j of PLOT_MITI,
\* method me and scenario s
CmpRaw(k, j, me, s) ==
    cmp_results.array[IndexOf(cmp_results.cpus, PLOT_CPUS[k].name)]
                     [IndexOf(MITIGATIONS, PLOT_MITI[j])][me][s][1]

\* the latency of NORM_METHOD under the first mitigation of PLOT_MITI
CmpReference(k, s) == CmpRaw(k, 1, IndexOf(METHODS, NORM_METHOD), s)

\* C12: every bar of the comparison is the latency divided by the reference
\* latency of its CPU, and the bar of the reference has height 1.
C12_BarsNormalized ==
    \A f \in 1..Len(cmp_figures) :
        \A k \in 1..Len(PLOT_CPUS) :
            /\ \A j \in 1..Len(PLOT_MITI), me \in 1..Len(METHODS) :
                  cmp_figures[f].axes[k].heights[j][me]
                     = Quotient(CmpRaw(k, j, me, cmp_figures[f].scenario),
                                CmpReference(k, cmp_figures[f].scenario))
            /\ cmp_figures[f].axes[k].heights[1][IndexOf(METHODS, NORM_METHOD)]
                  = <<1, 1>>

(***************************************************************************)
(* Empty sample sets in the statistics pipeline (SpecEmpty).               *)
(***************************************************************************)
\* the samples of column k of the file that survive the filter, for a file
\* without malformed fields
Surviving(lines, k) ==
    {r \in 2..Len(lines) :
        /\ Len(lines[r]) >= k
        /\ int(lines[r][k]).val <= OVERFLOW_THRESHOLD}

\* a file the scan finds has a column without a surviving sample
HasEmptyColumn ==
    \E d \in Discovered :
        /\ FileAt(d).lines # <<>>
        /\ \E k \in 1..Len(Head(FileAt(d).lines)) :
              Surviving(FileAt(d).lines, k) = {}

\* C13: when a file the scan finds has a column with no surviving sample
\* (all of them filtered, or no data row at all), the run does not get past
\* read_cpus: an exception leaves main(), no row at all is handed on or
\* written, and cycle_stats.csv stays as it was.
C13_EmptyColumnAborts ==
    HasEmptyColumn
    => /\ pc \in {"read_cpus", "raised"}
       /\ pc = "raised" => exc # "None"
       /\ results = <<>>
       /\ output \in {NoFile, OldFile}

\* a run that raised on a column of filtered samples only, found after a
\* file that read_csv aggregates
C13_Witness ==
    /\ pc = "raised"
    /\ \E d \in Discovered : FileAt(d).lines = EmptyColumnFile
    /\ \E d \in Discovered : read_csv(FileAt(d).lines).ok

====
